---- MODULE Spec2Model ----
(***************************************************************************)
(* The region-chain bump allocator of src/src/arena.h as a state machine.  *)
(* Regions are heap objects named by ids (NULL is nullptr).  An id names   *)
(* one region object for good: a region the backend creates after another  *)
(* was released is a different object and gets a new id.  Sizes are in     *)
(* bytes at the interface and in machine words inside a region, as in the  *)
(* code.                                                                   *)
(***************************************************************************)
EXTENDS Integers, Sequences, FiniteSets, TLC

\* ---------------------------------------------------------------- bounds
\* Regions the backend hands out over one run (ids 1..MaxRegions).
MaxRegions == 3
\* Snapshots the client keeps at once.
MaxSnaps == 1
\* Allocations recorded by one pass of an experiment (first/second pass, log).
MaxLog == 3

\* ------------------------------------------------------------- constants
\* sizeof(uintptr_t): the machine word in bytes.
sizeof_uintptr_t == 8
\* sizeof(Region): the header, a pointer and two size_t.
sizeof_Region == 3 * sizeof_uintptr_t
\* KTL_ARENA_REGION_DEFAULT_CAPACITY, in words.  The macro is a build-time
\* setting (#ifndef ... #define); the model is built with a small value.
KTL_ARENA_REGION_DEFAULT_CAPACITY == 2
\* Width of size_t in bits, and the modulus of its arithmetic.
size_t_bits == 16
SIZE_MODULUS == 2 ^ size_t_bits

NULL == 0
RegionIds == 1 .. MaxRegions

\* Byte counts the client passes to arena_alloc / arena_realloc: zero, one
\* byte, one word and a byte, a full default region, and one byte more than a
\* full default region (an oversized request).
AllocBytes ==
    { 0, 1, sizeof_uintptr_t + 1,
      KTL_ARENA_REGION_DEFAULT_CAPACITY * sizeof_uintptr_t,
      KTL_ARENA_REGION_DEFAULT_CAPACITY * sizeof_uintptr_t + 1 }

\* Old sizes the client passes to arena_realloc.
OldBytes == { 0, 1, KTL_ARENA_REGION_DEFAULT_CAPACITY * sizeof_uintptr_t }

VARIABLES
    arena,      \* struct Arena: begin, end, and the two tracing counters
    regions,    \* the heap: region id -> struct Region (next, count, capacity)
    live,       \* regions obtained from the backend and not released
    released,   \* regions given back to the backend
    snaps,      \* the ArenaSnapshot values the client holds, in capture order
    stale,      \* per snapshot: discarded by a rewind/reset/release to before it
    called,     \* the arena function the client called last
    result,     \* the pointer that call returned (nullptr if it returns none)
    crashed,    \* the process has died on a null dereference
    aborted,    \* a failed assertion has aborted the process
    pass,       \* what the client does: 0 free use, 1 first pass, 2 second pass,
                \* 3 allocations only, 4 blocks with contents, 5 any sizes,
                \* 6 the allocator adapter (assertions on), 7 the same under
                \* NDEBUG, 8 a sparse_set, 9 a grid, 10 scoped use of the
                \* arena in stack order, 11 requests of any size, 12 a
                \* sparse_set with a narrow ID type, 13 threads at a
                \* ktl_once_safe call site, 14 threads at a ktl_once call
                \* site
    mark,       \* the snapshot captured at the start of the first pass
    log,        \* allocations of the first pass (or since the fresh arena)
    log2,       \* allocations of the second pass
    set,        \* the sparse_set object of src/src/sparse_set.h
    client,     \* what the sparse_set's client holds: ids, handles, return values
    g,          \* the grid object of src/src/grid.h
    component,  \* the list get_connected_component returned last
    once        \* a ktl_once / ktl_once_safe call site and the threads at it

vars == << arena, regions, live, released, snaps, stale, called, result, crashed,
           aborted, pass, mark, log, log2, set, client, g, component, once >>

\* ------------------------------------------------------------ data model
\* struct Region, default member initialisers, as an entry of the heap: the
\* header fields; size, the length in bytes of the storage the backend was
\* asked for; data, the bytes of data[] that have been written (byte offset
\* -> value; a byte not in the domain is indeterminate).
Region == [next |-> NULL, count |-> 0, capacity |-> 0, size |-> 0, data |-> << >>]

\* struct Arena, default member initialisers.
Arena ==
    [begin |-> NULL, end |-> NULL,
     region_creations |-> 0, allocations_bigger_than_region_size |-> 0]

\* struct ArenaSnapshot, default member initialisers.
ArenaSnapshot == [region |-> NULL, count |-> 0]

\* A pointer into a region's data[]: &r->data[offset]; nullptr is region NULL.
Ptr(r, off) == [region |-> r, offset |-> off]
nullptr == Ptr(NULL, 0)

\* The regions reachable from r by following next, in order.
RECURSIVE ChainFrom(_, _)
ChainFrom(rs, r) ==
    IF r = NULL THEN << >> ELSE << r >> \o ChainFrom(rs, rs[r].next)

Chain == ChainFrom(regions, arena.begin)

\* Position of region r in sequence c (0 when absent).
RECURSIVE PosIn(_, _)
PosIn(c, r) ==
    IF c = << >> THEN 0
    ELSE IF c[Len(c)] = r THEN Len(c)
    ELSE PosIn(SubSeq(c, 1, Len(c) - 1), r)

Range(s) == { s[i] : i \in 1 .. Len(s) }

\* ------------------------------------------------------------- backend
\* The arena together with the heap it lives in, as one value, so that the
\* functions below can be composed the way the code calls them.
State == [arena |-> arena, regions |-> regions, live |-> live, released |-> released]

\* The region object the backend creates next: one that never existed before.
FreshRegion(st) == Cardinality(st.live \cup st.released) + 1

\* The backend can still provide a region (bound of the model).
BackendHasRoom(st) == FreshRegion(st) \in RegionIds

\* size_t size = sizeof(Region) + sizeof(uintptr_t) * capacity;
RegionBytes(capacity) ==
    (sizeof_Region + ((sizeof_uintptr_t * capacity) % SIZE_MODULUS)) % SIZE_MODULUS

\* detail::new_region(capacity): obtain storage of `size` bytes, initialise
\* the header.  Returns the new state and the new region's address r.
new_region(st, capacity) ==
    LET r == FreshRegion(st) IN
    [st |-> [st EXCEPT
                !.regions[r] = [next |-> NULL, count |-> 0, capacity |-> capacity,
                                size |-> RegionBytes(capacity), data |-> << >>],
                !.live = @ \cup {r}],
     r |-> r]

\* detail::free_region(r): give the region back; its header is gone with it.
free_region(st, r) ==
    [st EXCEPT !.regions[r] = Region,
               !.live = @ \ {r},
               !.released = @ \cup {r}]

\* ---------------------------------------------------------- arena_alloc
\* Mutant: the size is rounded down instead of up.
RoundUp_Floor(bytes) == (bytes % SIZE_MODULUS) \div sizeof_uintptr_t

\* size_t size = (bytes + sizeof(uintptr_t) - 1) / sizeof(uintptr_t);
RoundUp(bytes) ==
    ((bytes + sizeof_uintptr_t - 1) % SIZE_MODULUS) \div sizeof_uintptr_t

\* Mutant: the room test is off by one word.
LacksRoom_OffByOne(rs, r, size) ==
    (rs[r].count + size) % SIZE_MODULUS > rs[r].capacity + 1

\* a->end->count + size > a->end->capacity, in size_t arithmetic.
LacksRoom(rs, r, size) == (rs[r].count + size) % SIZE_MODULUS > rs[r].capacity

\* Mutant: the cursor is not moved along the chain.
ScanForward_Stay(rs, r, size) == r

\* while (end lacks room && end->next != nullptr) end = end->next;
RECURSIVE ScanForward(_, _, _)
ScanForward(rs, r, size) ==
    IF LacksRoom(rs, r, size) /\ rs[r].next # NULL
    THEN ScanForward(rs, rs[r].next, size)
    ELSE r

\* if (a->end == nullptr) { ... }: the first region of an empty arena.
AllocFirstRegion(st, size) ==
    LET big == KTL_ARENA_REGION_DEFAULT_CAPACITY < size
        capacity == IF big THEN size ELSE KTL_ARENA_REGION_DEFAULT_CAPACITY
        nr == new_region(st, capacity)
    IN  [nr.st EXCEPT
            !.arena.allocations_bigger_than_region_size =
                IF big THEN @ + 1 ELSE @,
            !.arena.region_creations = @ + 1,
            !.arena.end = nr.r,
            !.arena.begin = nr.r]

\* Mutant: an appended region gets the default capacity on top of the request.
AllocAppendRegion_Padded(st, size) ==
    LET nr == new_region(st, KTL_ARENA_REGION_DEFAULT_CAPACITY + size)
        e == st.arena.end
    IN  [nr.st EXCEPT
            !.regions[e].next = nr.r,
            !.arena.region_creations = @ + 1,
            !.arena.end = nr.r]

\* Mutant: the appended region is not counted.
AllocAppendRegion_Uncounted(st, size) ==
    LET capacity == IF KTL_ARENA_REGION_DEFAULT_CAPACITY < size
                    THEN size ELSE KTL_ARENA_REGION_DEFAULT_CAPACITY
        nr == new_region(st, capacity)
        e == st.arena.end
    IN  [nr.st EXCEPT
            !.regions[e].next = nr.r,
            !.arena.end = nr.r]

\* if (a->end->count + size > a->end->capacity) { ... }: append after end.
AllocAppendRegion(st, size) ==
    LET capacity == IF KTL_ARENA_REGION_DEFAULT_CAPACITY < size
                    THEN size ELSE KTL_ARENA_REGION_DEFAULT_CAPACITY
        nr == new_region(st, capacity)
        e == st.arena.end
    IN  [nr.st EXCEPT
            !.regions[e].next = nr.r,
            !.arena.region_creations = @ + 1,
            !.arena.end = nr.r]

\* The call has to obtain a region from the backend.
AllocNeedsRegion(st, bytes) ==
    LET size == RoundUp(bytes) IN
    IF st.arena.end = NULL THEN TRUE
    ELSE LacksRoom(st.regions, ScanForward(st.regions, st.arena.end, size), size)

\* Mutant: the forward scan starts at the head of the chain.
arena_alloc_FromBegin(st, bytes) ==
    LET size == RoundUp(bytes)
        s1 == IF st.arena.end = NULL THEN AllocFirstRegion(st, size) ELSE st
        s2 == [s1 EXCEPT !.arena.end = ScanForward(s1.regions, s1.arena.begin, size)]
        s3 == IF LacksRoom(s2.regions, s2.arena.end, size)
              THEN AllocAppendRegion(s2, size) ELSE s2
        e  == s3.arena.end
    IN  [st |-> [s3 EXCEPT !.regions[e].count = (@ + size) % SIZE_MODULUS],
         result |-> Ptr(e, s3.regions[e].count)]

\* Mutant: the pointer is taken after the count has been advanced.
arena_alloc_AfterBump(st, bytes) ==
    LET size == RoundUp(bytes)
        s1 == IF st.arena.end = NULL THEN AllocFirstRegion(st, size) ELSE st
        s2 == [s1 EXCEPT !.arena.end = ScanForward(s1.regions, s1.arena.end, size)]
        s3 == IF LacksRoom(s2.regions, s2.arena.end, size)
              THEN AllocAppendRegion(s2, size) ELSE s2
        e  == s3.arena.end
    IN  [st |-> [s3 EXCEPT !.regions[e].count = (@ + size) % SIZE_MODULUS],
         result |-> Ptr(e, (s3.regions[e].count + size) % SIZE_MODULUS)]

\* void* arena_alloc(Arena* a, size_t bytes): the state after the call and
\* the returned pointer.
arena_alloc(st, bytes) ==
    LET size == RoundUp(bytes)
        s1 == IF st.arena.end = NULL THEN AllocFirstRegion(st, size) ELSE st
        s2 == [s1 EXCEPT !.arena.end = ScanForward(s1.regions, s1.arena.end, size)]
        s3 == IF LacksRoom(s2.regions, s2.arena.end, size)
              THEN AllocAppendRegion(s2, size) ELSE s2
        e  == s3.arena.end
    IN  [st |-> [s3 EXCEPT !.regions[e].count = (@ + size) % SIZE_MODULUS],
         result |-> Ptr(e, s3.regions[e].count)]

\* -------------------------------------------------------- arena_realloc
\* The byte offset in its region's data[] of byte k of the block at p.
ByteOffset(p, k) == p.offset * sizeof_uintptr_t + k

\* The value of a byte of storage that has not been written since malloc
\* returned it (no value of a byte, which are 0 .. 255).
indeterminate == 0 - 1

\* Byte k of the block at p; indeterminate if it was never written.
ByteAt(rs, p, k) ==
    LET d == rs[p.region].data IN
    IF ByteOffset(p, k) \in DOMAIN d THEN d[ByteOffset(p, k)] ELSE indeterminate

\* The data[] of the region of p after bytes 0 .. n-1 of the block at p have
\* been stored from val (byte offset in the block -> value, or indeterminate).
StoreBytes(rs, p, n, val) ==
    LET d      == rs[p.region].data
        target == { ByteOffset(p, k) : k \in 0 .. n - 1 }
        at(o)  == val[o - ByteOffset(p, 0)]
        dom    == (DOMAIN d \ target) \cup { o \in target : at(o) # indeterminate }
    IN  IF dom = {} THEN << >>
        ELSE [o \in dom |-> IF o \in target THEN at(o) ELSE d[o]]

\* for (size_t i = 0; i < oldsz; ++i) newptr_char[i] = oldptr_char[i];
\* (the blocks do not overlap).
CopyBytes(rs, newptr, oldptr, oldsz) ==
    IF oldsz = 0 THEN rs
    ELSE [rs EXCEPT ![newptr.region].data =
             StoreBytes(rs, newptr, oldsz,
                        [k \in 0 .. oldsz - 1 |-> ByteAt(rs, oldptr, k)])]

\* Mutant: equal sizes take the grow branch.
arena_realloc_Strict(st, oldptr, oldsz, newsz) ==
    IF newsz < oldsz
    THEN [st |-> st, result |-> oldptr]
    ELSE LET r == arena_alloc(st, newsz) IN
         [st |-> [r.st EXCEPT
                     !.regions = CopyBytes(r.st.regions, r.result, oldptr, oldsz)],
          result |-> r.result]

\* Mutant: a block that is the last of the current region and has room
\* after it is extended in place.
arena_realloc_InPlace(st, oldptr, oldsz, newsz) ==
    LET old == RoundUp(oldsz)
        new == RoundUp(newsz)
        e   == st.arena.end
    IN  IF newsz <= oldsz
        THEN [st |-> st, result |-> oldptr]
        ELSE IF /\ oldptr # nullptr
                /\ oldptr.region = e
                /\ oldptr.offset + old = st.regions[e].count
                /\ oldptr.offset + new <= st.regions[e].capacity
        THEN [st |-> [st EXCEPT !.regions[e].count = oldptr.offset + new],
              result |-> oldptr]
        ELSE LET r == arena_alloc(st, newsz) IN
             [st |-> [r.st EXCEPT
                         !.regions = CopyBytes(r.st.regions, r.result, oldptr, oldsz)],
              result |-> r.result]

\* void* arena_realloc(Arena* a, void* oldptr, size_t oldsz, size_t newsz)
arena_realloc(st, oldptr, oldsz, newsz) ==
    IF newsz <= oldsz
    THEN [st |-> st, result |-> oldptr]
    ELSE LET r == arena_alloc(st, newsz) IN
         [st |-> [r.st EXCEPT
                     !.regions = CopyBytes(r.st.regions, r.result, oldptr, oldsz)],
          result |-> r.result]

\* ------------------------------------------- snapshot / reset / rewind
\* ArenaSnapshot arena_snapshot(Arena* a)
arena_snapshot(st) ==
    IF st.arena.end = NULL
    THEN [region |-> st.arena.end, count |-> 0]
    ELSE [region |-> st.arena.end, count |-> st.regions[st.arena.end].count]

\* Mutant: only the first region of the walk is emptied.
ZeroCounts_One(rs, r) ==
    IF r = NULL THEN rs ELSE [rs EXCEPT ![r].count = 0]

\* Mutant: the counts of the later regions are left as they are.
ZeroCounts_None(rs, r) == rs

\* for (Region* r = from; r; r = r->next) r->count = 0;
RECURSIVE ZeroCounts(_, _)
ZeroCounts(rs, r) ==
    IF r = NULL THEN rs
    ELSE ZeroCounts([rs EXCEPT ![r].count = 0], rs[r].next)

\* void arena_reset(Arena* a)
arena_reset(st) ==
    [st EXCEPT !.regions = ZeroCounts(st.regions, st.arena.begin),
               !.arena.end = st.arena.begin]

\* Mutant: the regions after the snapshot's region are dropped from the chain.
arena_rewind_Unlink(st, s) ==
    IF s.region = NULL
    THEN arena_reset(st)
    ELSE [st EXCEPT !.regions[s.region].count = s.count,
                    !.regions[s.region].next = NULL,
                    !.arena.end = s.region]

\* Mutant: the cursor is not moved back to the snapshot's region.
arena_rewind_KeepEnd(st, s) ==
    IF s.region = NULL
    THEN arena_reset(st)
    ELSE LET rs1 == [st.regions EXCEPT ![s.region].count = s.count] IN
         [st EXCEPT !.regions = ZeroCounts(rs1, rs1[s.region].next)]

\* Mutant: the snapshot's region is emptied instead of restored to s.count.
arena_rewind_ZeroCount(st, s) ==
    IF s.region = NULL
    THEN arena_reset(st)
    ELSE LET rs1 == [st.regions EXCEPT ![s.region].count = 0] IN
         [st EXCEPT !.regions = ZeroCounts(rs1, rs1[s.region].next),
                    !.arena.end = s.region]

\* void arena_rewind(Arena* a, ArenaSnapshot s), s.region null or in the chain.
arena_rewind(st, s) ==
    IF s.region = NULL
    THEN arena_reset(st)
    ELSE LET rs1 == [st.regions EXCEPT ![s.region].count = s.count] IN
         [st EXCEPT !.regions = ZeroCounts(rs1, rs1[s.region].next),
                    !.arena.end = s.region]

\* The number of iterations of for (Region* r = from; r; r = r->next).
RECURSIVE ZeroCountsSteps(_, _)
ZeroCountsSteps(rs, r) ==
    IF r = NULL THEN 0 ELSE 1 + ZeroCountsSteps(rs, rs[r].next)

\* The steps of arena_snapshot(a): the test of a->end and the two stores.
arena_snapshot_steps(st) == 3

\* The steps of arena_reset(a): one per iteration of its loop, and the store
\* to a->end.
arena_reset_steps(st) == ZeroCountsSteps(st.regions, st.arena.begin) + 1

\* The steps of arena_rewind(a, s): the test of s.region, the store to
\* s.region->count, one per iteration of the loop, and the store to a->end.
arena_rewind_steps(st, s) ==
    IF s.region = NULL
    THEN 1 + arena_reset_steps(st)
    ELSE 3 + ZeroCountsSteps(st.regions, st.regions[s.region].next)

\* ------------------------------------------------------- free / trim
\* Mutant: the loop releases the first region only and drops the rest.
FreeFrom_HeadOnly(st, r) ==
    IF r = NULL THEN st ELSE free_region(st, r)

\* while (r) { r0 = r; r = r->next; free_region(r0); }
RECURSIVE FreeFrom(_, _)
FreeFrom(st, r) ==
    IF r = NULL THEN st
    ELSE FreeFrom(free_region(st, r), st.regions[r].next)

\* Mutant: the cursor is left pointing at the released chain.
arena_free_KeepEnd(st) ==
    [FreeFrom(st, st.arena.begin) EXCEPT !.arena.begin = NULL]

\* Mutant: the release also clears the tracing counters.
arena_free_ZeroCounters(st) ==
    [FreeFrom(st, st.arena.begin) EXCEPT !.arena = Arena]

\* void arena_free(Arena* a)
arena_free(st) ==
    [FreeFrom(st, st.arena.begin) EXCEPT !.arena.begin = NULL, !.arena.end = NULL]

\* Mutant: the link from end to the released regions is not cleared.
arena_trim_KeepNext(st) == FreeFrom(st, st.regions[st.arena.end].next)

\* void arena_trim(Arena* a), a->end not null.
arena_trim(st) ==
    LET e == st.arena.end IN
    [FreeFrom(st, st.regions[e].next) EXCEPT !.regions[e].next = NULL]

\* ----------------------------------------------------- ArenaAllocator<T>
\* sizeof(T) of the element type the adapter is instantiated with.
sizeof_T == 4

\* Mutant: the adapter passes the element count as the byte count.
ArenaAllocator_allocate_Count(st, n, ndebug) ==
    IF ~ndebug /\ n > (SIZE_MODULUS - 1) \div sizeof_T
    THEN [st |-> st, result |-> nullptr]
    ELSE arena_alloc(st, n % SIZE_MODULUS)

\* T* ArenaAllocator<T>::allocate(size_t n), the adapter bound to the arena;
\* ndebug: the build defines NDEBUG.
ArenaAllocator_allocate(st, n, ndebug) ==
    IF ~ndebug /\ n > (SIZE_MODULUS - 1) \div sizeof_T
    THEN [st |-> st, result |-> nullptr]
    ELSE arena_alloc(st, (n * sizeof_T) % SIZE_MODULUS)

\* Mutant: a block that is the last of the cursor's region is given back.
ArenaAllocator_deallocate_Pop(st, p, n) ==
    LET words == RoundUp((n * sizeof_T) % SIZE_MODULUS) IN
    IF p # nullptr /\ p.region = st.arena.end
       /\ p.offset + words = st.regions[p.region].count
    THEN [st EXCEPT !.regions[p.region].count = p.offset]
    ELSE st

\* void ArenaAllocator<T>::deallocate(T*, size_t) noexcept {}
ArenaAllocator_deallocate(st, p, n) == st

\* ------------------------------------------------------------ sparse_set
\* struct sparse_set<T, ID, Alloc> of src/src/sparse_set.h.  The three
\* vectors are sequences: element i of a vector is element i + 1 of the
\* sequence.  ID_bits is the width of the unsigned type ID; the default ID
\* is size_t.
At(v, i) == v[i + 1]

\* The values of type ID.
ID_MODULUS(s) == 2 ^ s.ID_bits

\* struct _metadata, default member initialisers.
_metadata == [rid |-> 0, validity_id |-> 0]

\* sparse_set(const Alloc& alloc = Alloc{}): three empty vectors.
sparse_set(bits) ==
    [ID_bits |-> bits, _data |-> << >>, metadata |-> << >>, indexes |-> << >>]

\* size_t set_size() const
set_size(s) == Len(s._data)

\* Mutant: a freed id is not reused, every insert takes a new id.
_get_free_id_Fresh(s) ==
    LET new_id == Len(s.metadata) % ID_MODULUS(s) IN
    [set |-> [s EXCEPT !.metadata = Append(@, [rid |-> new_id, validity_id |-> 0]),
                       !.indexes = Append(@, new_id)],
     id |-> new_id]

\* ID _get_free_id(): the set after the call and the id returned.
_get_free_id(s) ==
    IF Len(s.metadata) > set_size(s)
    THEN [set |-> [s EXCEPT !.metadata[set_size(s) + 1].validity_id =
                                (@ + 1) % ID_MODULUS(s)],
          id |-> At(s.metadata, set_size(s)).rid]
    ELSE LET new_id == set_size(s) % ID_MODULUS(s) IN
         [set |-> [s EXCEPT !.metadata = Append(@, [rid |-> new_id, validity_id |-> 0]),
                            !.indexes = Append(@, new_id)],
          id |-> new_id]

\* ID _get_free_slot()
_get_free_slot(s) ==
    LET r == _get_free_id(s) IN
    [set |-> [r.set EXCEPT !.indexes[r.id + 1] = set_size(s) % ID_MODULUS(s)],
     id |-> r.id]

\* ID push_back(const T& obj); emplace_back differs only in how the object
\* is constructed.
push_back(s, obj) ==
    LET r == _get_free_slot(s) IN
    [set |-> [r.set EXCEPT !._data = Append(@, obj)], id |-> r.id]

\* std::swap of elements i and j of a vector.
Swap(v, i, j) == [v EXCEPT ![i + 1] = v[j + 1], ![j + 1] = v[i + 1]]

\* Mutant: the last element is dropped without being moved into the slot of
\* the erased one.
erase_PopOnly(s, id) ==
    LET data_id      == At(s.indexes, id)
        last_data_id == (set_size(s) - 1) % ID_MODULUS(s)
        last_id      == At(s.metadata, last_data_id).rid
        m1 == [s.metadata EXCEPT ![data_id + 1].validity_id = (@ + 1) % ID_MODULUS(s)]
    IN  [s EXCEPT !._data = SubSeq(@, 1, Len(@) - 1),
                  !.metadata = Swap(m1, data_id, last_data_id),
                  !.indexes = Swap(@, id, last_id)]

\* Mutant: the validity id of the erased element's slot is left alone.
erase_KeepValidity(s, id) ==
    LET data_id      == At(s.indexes, id)
        last_data_id == (set_size(s) - 1) % ID_MODULUS(s)
        last_id      == At(s.metadata, last_data_id).rid
    IN  [s EXCEPT !._data = SubSeq(Swap(@, data_id, last_data_id), 1, Len(@) - 1),
                  !.metadata = Swap(@, data_id, last_data_id),
                  !.indexes = Swap(@, id, last_id)]

\* Mutant: the entries of indexes are not exchanged.
erase_KeepIndexes(s, id) ==
    LET data_id      == At(s.indexes, id)
        last_data_id == (set_size(s) - 1) % ID_MODULUS(s)
        m1 == [s.metadata EXCEPT ![data_id + 1].validity_id = (@ + 1) % ID_MODULUS(s)]
    IN  [s EXCEPT !._data = SubSeq(Swap(@, data_id, last_data_id), 1, Len(@) - 1),
                  !.metadata = Swap(m1, data_id, last_data_id)]

\* void erase(ID id), id the id of a stored element.
erase(s, id) ==
    LET data_id      == At(s.indexes, id)
        last_data_id == (set_size(s) - 1) % ID_MODULUS(s)
        last_id      == At(s.metadata, last_data_id).rid
        m1 == [s.metadata EXCEPT ![data_id + 1].validity_id = (@ + 1) % ID_MODULUS(s)]
    IN  [s EXCEPT !._data = SubSeq(Swap(@, data_id, last_data_id), 1, Len(@) - 1),
                  !.metadata = Swap(m1, data_id, last_data_id),
                  !.indexes = Swap(@, id, last_id)]

\* void erase_via_data(size_t idx)
erase_via_data(s, idx) == erase(s, At(s.metadata, idx).rid)

\* T& operator[](ID id)
Subscript(s, id) == At(s._data, At(s.indexes, id))

\* set[id] = obj;
Assign(s, id, obj) == [s EXCEPT !._data[At(s.indexes, id) + 1] = obj]

\* basic_handle<T, ID, Alloc> create_handle(ID id)
create_handle(s, id) ==
    [id |-> id, validity_id |-> At(s.metadata, At(s.indexes, id)).validity_id]

\* bool valid(ID id, ID validity_id) const; basic_handle::valid() calls it
\* with the handle's two ids.
valid(s, id, validity_id) ==
    validity_id = At(s.metadata, At(s.indexes, id)).validity_id

\* Mutant: the loop advances past the slot it has just refilled.
RECURSIVE remove_if_Skip(_, _, _)
remove_if_Skip(s, predicate, i) ==
    IF i < set_size(s)
    THEN IF At(s._data, i) \in predicate
         THEN LET r == remove_if_Skip(erase_via_data(s, i), predicate, i + 1) IN
              [r EXCEPT !.steps = @ + 1]
         ELSE LET r == remove_if_Skip(s, predicate, i + 1) IN
              [r EXCEPT !.steps = @ + 1]
    ELSE [set |-> s, steps |-> 0]

\* void remove_if(Func&& predicate), the loop from index i on; predicate is
\* the set of values it accepts.  Returns the set after the loop and the
\* number of iterations the loop made.
RECURSIVE remove_if(_, _, _)
remove_if(s, predicate, i) ==
    IF i < set_size(s)
    THEN IF At(s._data, i) \in predicate
         THEN LET r == remove_if(erase_via_data(s, i), predicate, i) IN
              [r EXCEPT !.steps = @ + 1]
         ELSE LET r == remove_if(s, predicate, i + 1) IN
              [r EXCEPT !.steps = @ + 1]
    ELSE [set |-> s, steps |-> 0]

\* ID get_next_id() const
get_next_id(s) ==
    IF Len(s.metadata) > set_size(s)
    THEN At(s.metadata, set_size(s)).rid
    ELSE set_size(s) % ID_MODULUS(s)

\* Mutant: the validity ids are left alone.
clear_KeepValidity(s) == [s EXCEPT !._data = << >>]

\* void clear()
clear(s) ==
    [s EXCEPT !._data = << >>,
              !.metadata = [k \in 1 .. Len(@) |->
                               [@[k] EXCEPT !.validity_id = (@ + 1) % ID_MODULUS(s)]]]

\* bool valid_id(ID id) const
valid_id(s, id) == id < Len(s.indexes)

\* What the client of the set holds: the id the last insert returned or the
\* number of iterations the last remove_if made (ret); for every id whose
\* element is stored the value it put there (stored); the handles it created,
\* each with a note whether its element has been erased since (erased); the
\* ids it has been given so far (issued); and the ids it erased one by one
\* since the last remove_if or clear and has not been given again, in the
\* order of the erase calls (freed).
NoClient ==
    [ret |-> 0, stored |-> << >>, handles |-> << >>, issued |-> {}, freed |-> << >>]

\* ------------------------------------------------------------------ grid
\* enum grid_opts
GRID_GROW_BOTTOM_RIGHT == 1
GRID_GROW_BOTTOM_LEFT == 2
GRID_GROW_TOP_RIGHT == 4
GRID_GROW_TOP_LEFT == 8
GRID_GROW_OUTWARD == 16
GRID_GROW_MASK ==
    GRID_GROW_BOTTOM_RIGHT + GRID_GROW_BOTTOM_LEFT + GRID_GROW_TOP_RIGHT
        + GRID_GROW_TOP_LEFT + GRID_GROW_OUTWARD
GRID_NO_RETAIN_STATE == 32

\* opts & GRID_GROW_MASK: the mask is the bits below GRID_NO_RETAIN_STATE.
GrowBits(opts) == opts % (GRID_GROW_MASK + 1)

\* opts & GRID_NO_RETAIN_STATE, as a truth value.
NoRetain(opts) == (opts \div GRID_NO_RETAIN_STATE) % 2 = 1

\* bool _check_opts() const: exactly one growth bit is set.
_check_opts(opts) ==
    GrowBits(opts) \in { GRID_GROW_BOTTOM_RIGHT, GRID_GROW_BOTTOM_LEFT,
                         GRID_GROW_TOP_RIGHT, GRID_GROW_TOP_LEFT, GRID_GROW_OUTWARD }

\* std::vector(n, val) / data.assign(n, val)
Filled(n, val) == [k \in 1 .. n |-> val]

\* grid(size_t width, size_t height, T def_val, size_t opts)
grid(width, height, def_val, opts) ==
    [data |-> IF _check_opts(opts)
              THEN Filled((width * height) % SIZE_MODULUS, def_val) ELSE << >>,
     width |-> width, height |-> height, opts |-> opts]

\* pos2_size
pos2_size(x, y) == [x |-> x, y |-> y]

\* T& xy(size_t x, size_t y): data[y * width + x]
xy(gr, x, y) == At(gr.data, y * gr.width + x)

\* gr.xy(x, y) = val;
SetXY(gr, x, y, val) == [gr EXCEPT !.data[y * gr.width + x + 1] = val]

\* bool in_bounds(pos2_size p) const
in_bounds(gr, p) == p.x < gr.width /\ p.y < gr.height

\* The positions orthogonal_neighbors(p, func) passes to func, in order,
\* when func returns true every time.
orthogonal_neighbors(gr, p) ==
    (IF p.x > 0 THEN << pos2_size(p.x - 1, p.y) >> ELSE << >>)
    \o (IF p.x + 1 < gr.width THEN << pos2_size(p.x + 1, p.y) >> ELSE << >>)
    \o (IF p.y > 0 THEN << pos2_size(p.x, p.y - 1) >> ELSE << >>)
    \o (IF p.y + 1 < gr.height THEN << pos2_size(p.x, p.y + 1) >> ELSE << >>)

\* The inner loop of moore_neighbors for one dy: dx from its lower bound.
RECURSIVE MooreRow(_, _, _, _)
MooreRow(gr, p, dy, dx) ==
    IF dx <= (IF p.x + 1 < gr.width THEN 1 ELSE 0)
    THEN (IF dx = 0 /\ dy = 0 THEN << >> ELSE << pos2_size(p.x + dx, p.y + dy) >>)
         \o MooreRow(gr, p, dy, dx + 1)
    ELSE << >>

\* The outer loop of moore_neighbors: dy from its lower bound.
RECURSIVE MooreRows(_, _, _)
MooreRows(gr, p, dy) ==
    IF dy <= (IF p.y + 1 < gr.height THEN 1 ELSE 0)
    THEN MooreRow(gr, p, dy, IF p.x > 0 THEN 0 - 1 ELSE 0) \o MooreRows(gr, p, dy + 1)
    ELSE << >>

\* The positions moore_neighbors(p, func) passes to func, in order, when
\* func returns true every time.
moore_neighbors(gr, p) == MooreRows(gr, p, IF p.y > 0 THEN 0 - 1 ELSE 0)

\* auto flat_index = [this](pos2_size p) { return p.y * width + p.x; }
flat_index(gr, p) == p.y * gr.width + p.x

\* Mutant: a neighbour is taken without looking at the predicate.
VisitNeighbors_Any(gr, predicate, nbrs, k, st) ==
    [st EXCEPT !.visited = @ \cup { flat_index(gr, nbrs[j]) : j \in k .. Len(nbrs) },
               !.visited_positions =
                   @ \o SelectSeq(SubSeq(nbrs, k, Len(nbrs)),
                                  LAMBDA p : flat_index(gr, p) \notin st.visited),
               !.stack = @ \o SelectSeq(SubSeq(nbrs, k, Len(nbrs)),
                                        LAMBDA p : flat_index(gr, p) \notin st.visited)]

\* The calls of the lambda of _flood_fill_core on the neighbours nbrs[k],
\* nbrs[k + 1], ...; predicate is the set of cell values it accepts.
RECURSIVE VisitNeighbors(_, _, _, _, _)
VisitNeighbors(gr, predicate, nbrs, k, st) ==
    IF k > Len(nbrs) THEN st
    ELSE LET p == nbrs[k]
             idx == flat_index(gr, p)
         IN  IF idx \notin st.visited /\ xy(gr, p.x, p.y) \in predicate
             THEN VisitNeighbors(gr, predicate, nbrs, k + 1,
                      [st EXCEPT !.visited = @ \cup {idx},
                                 !.visited_positions = Append(@, p),
                                 !.stack = Append(@, p)])
             ELSE VisitNeighbors(gr, predicate, nbrs, k + 1, st)

\* while (!stack.empty()) { ... } of _flood_fill_core; iterations counts the
\* iterations of the loop.
RECURSIVE FloodLoop(_, _, _, _)
FloodLoop(gr, predicate, orthogonal, st) ==
    IF st.stack = << >> THEN st
    ELSE LET current == st.stack[Len(st.stack)]
             popped == [st EXCEPT !.stack = SubSeq(@, 1, Len(@) - 1),
                                  !.iterations = @ + 1]
             nbrs == IF orthogonal THEN orthogonal_neighbors(gr, current)
                     ELSE moore_neighbors(gr, current)
         IN  FloodLoop(gr, predicate, orthogonal,
                       VisitNeighbors(gr, predicate, nbrs, 1, popped))

\* auto _flood_fill_core(pos2_size start, Func predicate, bool orthogonal):
\* the positions returned and the iterations the loop made.
_flood_fill_core(gr, start, predicate, orthogonal) ==
    IF ~in_bounds(gr, start) \/ xy(gr, start.x, start.y) \notin predicate
    THEN [visited_positions |-> << >>, iterations |-> 0]
    ELSE LET st == FloodLoop(gr, predicate, orthogonal,
                       [visited |-> {flat_index(gr, start)},
                        visited_positions |-> << start >>,
                        stack |-> << start >>,
                        iterations |-> 0])
         IN  [visited_positions |-> st.visited_positions, iterations |-> st.iterations]

\* auto get_connected_component(pos2_size start, Func predicate, bool orthogonal)
get_connected_component(gr, start, predicate, orthogonal) ==
    _flood_fill_core(gr, start, predicate, orthogonal)

\* std::copy_n(&data[y * width], cw, &new_data[(y + y_offset) * new_width + x_offset])
copy_n(data, from, n, new_data, to) ==
    [k \in 1 .. Len(new_data) |->
        IF to < k /\ k <= to + n THEN data[from + (k - to)] ELSE new_data[k]]

\* for (size_t y = 0; y < ch; ++y) { std::copy_n(...); } of resize, from row y.
RECURSIVE CopyRows(_, _, _, _, _, _, _, _)
CopyRows(gr, new_data, new_width, x_offset, y_offset, cw, ch, y) ==
    IF y < ch
    THEN CopyRows(gr,
                  copy_n(gr.data, y * gr.width, cw, new_data,
                         (y + y_offset) * new_width + x_offset),
                  new_width, x_offset, y_offset, cw, ch, y + 1)
    ELSE new_data

\* std::min
Min(a, b) == IF a < b THEN a ELSE b

\* Mutant: growing outward shifts the old contents by the full difference.
XOffset_Full(gr, new_width) ==
    IF GrowBits(gr.opts) \in {GRID_GROW_BOTTOM_LEFT, GRID_GROW_TOP_LEFT, GRID_GROW_OUTWARD}
    THEN IF new_width > gr.width THEN new_width - gr.width ELSE 0
    ELSE 0

\* x_offset as the switch of resize sets it.
XOffset(gr, new_width) ==
    CASE GrowBits(gr.opts) \in {GRID_GROW_BOTTOM_LEFT, GRID_GROW_TOP_LEFT} ->
             IF new_width > gr.width THEN new_width - gr.width ELSE 0
      [] GrowBits(gr.opts) = GRID_GROW_OUTWARD ->
             IF new_width > gr.width THEN (new_width - gr.width) \div 2 ELSE 0
      [] OTHER -> 0

\* y_offset as the switch of resize sets it.
YOffset(gr, new_height) ==
    CASE GrowBits(gr.opts) \in {GRID_GROW_TOP_RIGHT, GRID_GROW_TOP_LEFT} ->
             IF new_height > gr.height THEN new_height - gr.height ELSE 0
      [] GrowBits(gr.opts) = GRID_GROW_OUTWARD ->
             IF new_height > gr.height THEN (new_height - gr.height) \div 2 ELSE 0
      [] OTHER -> 0

\* void resize(size_t new_width, size_t new_height, T def_val)
resize(gr, new_width, new_height, def_val) ==
    IF new_width = gr.width /\ new_height = gr.height THEN gr
    ELSE IF NoRetain(gr.opts)
    THEN [gr EXCEPT !.data = Filled((new_width * new_height) % SIZE_MODULUS, def_val),
                    !.width = new_width,
                    !.height = new_height]
    ELSE IF ~_check_opts(gr.opts) THEN gr
    ELSE LET new_data == Filled((new_width * new_height) % SIZE_MODULUS, def_val)
             cw == Min(gr.width, new_width)
             ch == Min(gr.height, new_height)
         IN  [gr EXCEPT !.data = CopyRows(gr, new_data, new_width,
                                          XOffset(gr, new_width),
                                          YOffset(gr, new_height), cw, ch, 0),
                        !.width = new_width,
                        !.height = new_height]

\* struct grid<T, Alloc> of src/src/grid.h before the constructor has run.
NoGrid == [data |-> << >>, width |-> 0, height |-> 0, opts |-> 0]

\* ------------------------------------------------- ktl_once / ktl_once_safe
\* Threads that reach the call site, and the calls each of them makes.
MaxThreads == 3
MaxCalls == 2
OnceThreads == 1 .. MaxThreads

\* One expansion of ktl_once(expr) or ktl_once_safe(expr): the static flag
\* done of the function instantiated for the call site, and for the threads
\* that reach it: where each of them is in the function (pc: "idle" outside
\* it, "store" before done = true, "run" before f()), how many calls it has
\* made (calls), which threads took the branch into f (ran), how many times
\* f has run (executed), the thread whose store changed done from false to
\* true (first, 0 if none), and whether a call began while another was in
\* progress (overlapped).
OnceSite ==
    [done |-> FALSE,
     pc |-> [t \in OnceThreads |-> "idle"],
     calls |-> [t \in OnceThreads |-> 0],
     ran |-> {},
     executed |-> 0,
     first |-> 0,
     overlapped |-> FALSE]

\* Mutant: the flag is tested but not set.
test_and_set_NoSet(done) == [done |-> done, ret |-> done]

\* bool std::atomic_flag::test_and_set(): one atomic read-modify-write; the
\* flag after the call and the value returned.
test_and_set(done) == [done |-> TRUE, ret |-> done]

\* ---------------------------------------------------------------- Init
\* A default-constructed Arena, an untouched backend, a client holding
\* no snapshot; a default-constructed sparse_set and no grid.
Fresh ==
    /\ arena = Arena
    /\ regions = [r \in RegionIds |-> Region]
    /\ live = {}
    /\ released = {}
    /\ snaps = << >>
    /\ stale = << >>
    /\ called = "none"
    /\ result = nullptr
    /\ crashed = FALSE
    /\ aborted = FALSE
    /\ mark = ArenaSnapshot
    /\ log = << >>
    /\ log2 = << >>
    /\ set = sparse_set(size_t_bits)
    /\ client = NoClient
    /\ g = NoGrid
    /\ component = << >>
    /\ once = OnceSite

Init == Fresh /\ pass = 0

SetState(st) ==
    /\ arena' = st.arena
    /\ regions' = st.regions
    /\ live' = st.live
    /\ released' = st.released

\* The process is alive, the client is in free use of the arena, and the
\* cursor does not point into storage given back to the backend.
Running == ~crashed /\ ~aborted /\ pass = 0 /\ arena.end \notin released

\* The call can be served within the model's backend bound.
CanAlloc(bytes) == AllocNeedsRegion(State, bytes) => BackendHasRoom(State)

\* ------------------------------------------------------------- actions
\* The client calls arena_alloc(&arena, bytes).
Alloc(bytes) ==
    /\ Running
    /\ CanAlloc(bytes)
    /\ LET r == arena_alloc(State, bytes) IN
         SetState(r.st) /\ result' = r.result
    /\ called' = "alloc"
    /\ UNCHANGED << snaps, stale, crashed, aborted, pass, mark, log, log2, set,
                    client, g, component, once >>

\* arena_realloc(&arena, result, oldsz, newsz) is a call the client may
\* make: when the call reads the old block (it grows, and oldsz > 0), result
\* is a block, the most recent one of its region, and holds oldsz bytes.
\* Otherwise result is just a value, possibly nullptr.
ReallocArgsValid(oldsz, newsz) ==
    /\ newsz > oldsz /\ oldsz > 0 =>
          /\ result # nullptr
          /\ RoundUp(oldsz) <= regions[result.region].count - result.offset
    /\ newsz > oldsz => CanAlloc(newsz)

\* The client calls arena_realloc(&arena, p, oldsz, newsz) with the pointer
\* it got last.
Realloc(oldsz, newsz) ==
    /\ Running
    /\ ReallocArgsValid(oldsz, newsz)
    /\ LET r == arena_realloc(State, result, oldsz, newsz) IN
         SetState(r.st) /\ result' = r.result
    /\ called' = "realloc"
    /\ UNCHANGED << snaps, stale, crashed, aborted, pass, mark, log, log2, set,
                    client, g, component, once >>

\* The client calls arena_snapshot(&arena) and keeps the value; a client
\* that already holds MaxSnaps snapshots overwrites the most recent one.
Snapshot ==
    /\ Running
    /\ LET keep == IF Len(snaps) < MaxSnaps THEN Len(snaps) ELSE MaxSnaps - 1 IN
         /\ snaps' = Append(SubSeq(snaps, 1, keep), arena_snapshot(State))
         /\ stale' = Append(SubSeq(stale, 1, keep), FALSE)
    /\ called' = "snapshot"
    /\ result' = nullptr
    /\ UNCHANGED << arena, regions, live, released, crashed, aborted, pass, mark, log, log2, set,
                    client, g, component, once >>

\* The client calls arena_reset(&arena).  Every snapshot of a region is
\* from now on a snapshot of discarded state.
Reset ==
    /\ Running
    /\ SetState(arena_reset(State))
    /\ stale' = [j \in 1 .. Len(stale) |-> stale[j] \/ snaps[j].region # NULL]
    /\ called' = "reset"
    /\ result' = nullptr
    /\ UNCHANGED << snaps, crashed, aborted, pass, mark, log, log2, set,
                    client, g, component, once >>

\* The snapshot may be passed to arena_rewind: it is the "none" snapshot or
\* its region is still in the chain.
Rewindable(s) == s.region = NULL \/ s.region \in Range(Chain)

\* The client calls arena_rewind(&arena, snaps[i]).  Afterwards snaps[i] is
\* again what arena_snapshot would return; the snapshots captured after it
\* (all others, when snaps[i] was itself a snapshot of discarded state) are
\* from now on snapshots of discarded state.
Rewind(i) ==
    /\ Running
    /\ Rewindable(snaps[i])
    /\ SetState(arena_rewind(State, snaps[i]))
    /\ stale' = [j \in 1 .. Len(stale) |->
                    /\ j # i
                    /\ \/ stale[j]
                       \/ stale[i]
                       \/ j > i
                       \/ snaps[i].region = NULL /\ snaps[j].region # NULL]
    /\ called' = "rewind"
    /\ result' = nullptr
    /\ UNCHANGED << snaps, crashed, aborted, pass, mark, log, log2, set,
                    client, g, component, once >>

\* The client calls arena_free(&arena).
Free ==
    /\ Running
    /\ SetState(arena_free(State))
    /\ stale' = [j \in 1 .. Len(stale) |-> stale[j] \/ snaps[j].region # NULL]
    /\ called' = "free"
    /\ result' = nullptr
    /\ UNCHANGED << snaps, crashed, aborted, pass, mark, log, log2, set,
                    client, g, component, once >>

\* The client calls arena_trim(&arena) on an arena that has regions.
Trim ==
    /\ Running
    /\ arena.end # NULL
    /\ LET st == arena_trim(State) IN
         /\ SetState(st)
         /\ stale' = [j \in 1 .. Len(stale) |->
                         stale[j] \/ snaps[j].region \in st.released]
    /\ called' = "trim"
    /\ result' = nullptr
    /\ UNCHANGED << snaps, crashed, aborted, pass, mark, log, log2, set,
                    client, g, component, once >>

\* The client calls arena_trim(&arena) on an empty arena: a->end->next reads
\* through a null pointer and the process dies.
TrimEmpty ==
    /\ Running
    /\ arena.end = NULL
    /\ crashed' = TRUE
    /\ called' = "trim"
    /\ UNCHANGED << arena, regions, live, released, snaps, stale, result,
                    aborted, pass, mark, log, log2, set,
                    client, g, component, once >>

Next ==
    \/ \E bytes \in AllocBytes : Alloc(bytes)
    \/ \E oldsz \in OldBytes, newsz \in AllocBytes : Realloc(oldsz, newsz)
    \/ Snapshot
    \/ Reset
    \/ \E i \in 1 .. Len(snaps) : Rewind(i)
    \/ Free
    \/ Trim
    \/ TrimEmpty

Spec == Init /\ [][Next]_vars

\* ------------------------------------------- snapshot/rewind round trip
\* The client, in any state of free use, captures a snapshot (mark), makes
\* up to MaxLog allocations (first pass), rewinds to the mark, and makes the
\* allocations of the same sizes again (second pass).  The snapshots of the
\* free use are dropped at the mark.
Mark ==
    /\ Running
    /\ pass' = 1
    /\ mark' = arena_snapshot(State)
    /\ snaps' = << >>
    /\ stale' = << >>
    /\ called' = "snapshot"
    /\ result' = nullptr
    /\ log' = << >>
    /\ UNCHANGED << arena, regions, live, released, crashed, aborted, log2, set,
                    client, g, component, once >>

FirstPassAlloc(bytes) ==
    /\ pass = 1
    /\ Len(log) < MaxLog
    /\ CanAlloc(bytes)
    /\ LET r == arena_alloc(State, bytes) IN
         /\ SetState(r.st)
         /\ result' = r.result
         /\ log' = Append(log, [bytes |-> bytes, ptr |-> r.result])
    /\ called' = "alloc"
    /\ UNCHANGED << snaps, stale, crashed, aborted, pass, mark, log2, set,
                    client, g, component, once >>

RewindToMark ==
    /\ pass = 1
    /\ SetState(arena_rewind(State, mark))
    /\ pass' = 2
    /\ called' = "rewind"
    /\ result' = nullptr
    /\ UNCHANGED << snaps, stale, crashed, aborted, mark, log, log2, set,
                    client, g, component, once >>

SecondPassAlloc ==
    /\ pass = 2
    /\ Len(log2) < Len(log)
    /\ LET bytes == log[Len(log2) + 1].bytes IN
         /\ CanAlloc(bytes)
         /\ LET r == arena_alloc(State, bytes) IN
              /\ SetState(r.st)
              /\ result' = r.result
              /\ log2' = Append(log2, [bytes |-> bytes, ptr |-> r.result])
    /\ called' = "alloc"
    /\ UNCHANGED << snaps, stale, crashed, aborted, pass, mark, log, set,
                    client, g, component, once >>

NextRoundTrip ==
    \/ Next
    \/ Mark
    \/ \E bytes \in AllocBytes : FirstPassAlloc(bytes)
    \/ RewindToMark
    \/ SecondPassAlloc

SpecRoundTrip == Init /\ [][NextRoundTrip]_vars

\* ------------------------------------------- allocations on a fresh arena
\* The client only allocates, from the default-constructed arena, and logs
\* every call.
InitFresh == Fresh /\ pass = 3

FreshAlloc(bytes) ==
    /\ pass = 3
    /\ Len(log) < MaxLog
    /\ CanAlloc(bytes)
    /\ LET r == arena_alloc(State, bytes) IN
         /\ SetState(r.st)
         /\ result' = r.result
         /\ log' = Append(log, [bytes |-> bytes, ptr |-> r.result])
    /\ called' = "alloc"
    /\ UNCHANGED << snaps, stale, crashed, aborted, pass, mark, log2, set,
                    client, g, component, once >>

NextFresh == \E bytes \in AllocBytes : FreshAlloc(bytes)

SpecFresh == InitFresh /\ [][NextFresh]_vars

\* --------------------------------------------- block contents and realloc
\* The client, from the default-constructed arena, makes up to MaxLog
\* allocate / realloc calls, stores bytes into the block it got last, and
\* resets the arena.
InitRealloc == Fresh /\ pass = 4

\* Sizes of this client's blocks: none, a byte, a word, a word and a byte.
BlockBytes == { 0, 1, sizeof_uintptr_t, sizeof_uintptr_t + 1 }

\* First byte values of the patterns the client stores.
FillValues == { 1, 2 }

ClientAlloc(bytes) ==
    /\ pass = 4
    /\ Len(log) < MaxLog
    /\ CanAlloc(bytes)
    /\ LET r == arena_alloc(State, bytes) IN
         /\ SetState(r.st)
         /\ result' = r.result
         /\ log' = Append(log, [bytes |-> bytes, ptr |-> r.result])
    /\ called' = "alloc"
    /\ UNCHANGED << snaps, stale, crashed, aborted, pass, mark, log2, set,
                    client, g, component, once >>

\* The client stores v, v+1, ... into the first n bytes of the block it got
\* last, which holds them.
ClientFill(n, v) ==
    /\ pass = 4
    /\ called \in {"alloc", "realloc"}
    /\ result # nullptr
    /\ n > 0
    /\ RoundUp(n) <= regions[result.region].count - result.offset
    /\ regions' = [regions EXCEPT ![result.region].data =
                      StoreBytes(regions, result, n, [k \in 0 .. n - 1 |-> v + k])]
    /\ called' = "fill"
    /\ UNCHANGED << arena, live, released, snaps, stale, result, crashed, aborted,
                    pass, mark, log, log2, set,
                    client, g, component, once >>

ClientRealloc(oldsz, newsz) ==
    /\ pass = 4
    /\ Len(log) < MaxLog
    /\ ReallocArgsValid(oldsz, newsz)
    /\ LET r == arena_realloc(State, result, oldsz, newsz) IN
         /\ SetState(r.st)
         /\ result' = r.result
         /\ log' = Append(log, [bytes |-> newsz, ptr |-> r.result])
    /\ called' = "realloc"
    /\ UNCHANGED << snaps, stale, crashed, aborted, pass, mark, log2, set,
                    client, g, component, once >>

ClientReset ==
    /\ pass = 4
    /\ called # "reset"
    /\ SetState(arena_reset(State))
    /\ called' = "reset"
    /\ result' = nullptr
    /\ UNCHANGED << snaps, stale, crashed, aborted, pass, mark, log, log2, set,
                    client, g, component, once >>

NextRealloc ==
    \/ \E bytes \in BlockBytes : ClientAlloc(bytes)
    \/ \E n \in BlockBytes, v \in FillValues : ClientFill(n, v)
    \/ \E oldsz \in BlockBytes, newsz \in BlockBytes : ClientRealloc(oldsz, newsz)
    \/ ClientReset

SpecRealloc == InitRealloc /\ [][NextRealloc]_vars

\* ------------------------------------------------ failures and misuse
\* The arena in free use, with a backend that may have no storage left and
\* a client that calls arena_rewind with a snapshot of a released region or
\* free_region with a null pointer.

\* The state in which arena_alloc stops when new_region has returned nullptr
\* (malloc failed and ktl_assert is compiled to nothing): both calls of
\* new_region are followed by a read through a->end, which is null by then.
arena_alloc_nomem(st, bytes) ==
    LET size == RoundUp(bytes) IN
    IF st.arena.end = NULL
    THEN [st EXCEPT
             !.arena.allocations_bigger_than_region_size =
                 IF KTL_ARENA_REGION_DEFAULT_CAPACITY < size THEN @ + 1 ELSE @,
             !.arena.region_creations = @ + 1,
             !.arena.end = NULL,
             !.arena.begin = NULL]
    ELSE LET e == ScanForward(st.regions, st.arena.end, size) IN
         [st EXCEPT
             !.regions[e].next = NULL,
             !.arena.region_creations = @ + 1,
             !.arena.end = NULL]

\* The state in which arena_alloc stops when the assertion in new_region
\* fails (malloc failed, ktl_assert is assert).
arena_alloc_abort(st, bytes) ==
    LET size == RoundUp(bytes) IN
    IF st.arena.end = NULL
    THEN [st EXCEPT
             !.arena.allocations_bigger_than_region_size =
                 IF KTL_ARENA_REGION_DEFAULT_CAPACITY < size THEN @ + 1 ELSE @]
    ELSE [st EXCEPT !.arena.end = ScanForward(st.regions, st.arena.end, size)]

\* arena_alloc(&arena, bytes) needs a region and malloc fails, assertions
\* disabled: the process dies on the read through the null a->end.
AllocNoMem(bytes) ==
    /\ Running
    /\ AllocNeedsRegion(State, bytes)
    /\ SetState(arena_alloc_nomem(State, bytes))
    /\ crashed' = TRUE
    /\ called' = "alloc"
    /\ UNCHANGED << snaps, stale, result, aborted, pass, mark, log, log2, set,
                    client, g, component, once >>

\* The same with assertions enabled: the assertion aborts the process.
AllocNoMemAssert(bytes) ==
    /\ Running
    /\ AllocNeedsRegion(State, bytes)
    /\ SetState(arena_alloc_abort(State, bytes))
    /\ aborted' = TRUE
    /\ called' = "alloc"
    /\ UNCHANGED << snaps, stale, result, crashed, pass, mark, log, log2, set,
                    client, g, component, once >>

\* Requests near the top of size_t: the largest whose region size fits, and
\* two whose region size does not.
HugeBytes == { SIZE_MODULUS - 32, SIZE_MODULUS - 24, SIZE_MODULUS - 8 }

\* The storage obtained for region r is too short for its header.
HeaderOverrun(rs, r) == rs[r].size < sizeof_Region

\* arena_alloc(&arena, bytes) on an arena that so far only served
\* allocations, MaxLog at most, with requests of any size.  When the region
\* created for the call got storage too short for its header, new_region
\* has written outside the storage: the process goes on or dies.
AllocAnySize(bytes) ==
    /\ pass = 5
    /\ ~crashed
    /\ Len(log) < MaxLog
    /\ CanAlloc(bytes)
    /\ LET r == arena_alloc(State, bytes) IN
         /\ SetState(r.st)
         /\ result' = r.result
         /\ log' = Append(log, [bytes |-> bytes, ptr |-> r.result])
         /\ \/ crashed' = FALSE
            \/ /\ \E x \in r.st.live \ live : HeaderOverrun(r.st.regions, x)
               /\ crashed' = TRUE
    /\ called' = "alloc"
    /\ UNCHANGED << snaps, stale, aborted, pass, mark, log2, set,
                    client, g, component, once >>

InitAnySize == Fresh /\ pass = 5

NextAnySize == \E bytes \in AllocBytes \cup HugeBytes : AllocAnySize(bytes)

SpecAnySize == InitAnySize /\ [][NextAnySize]_vars

\* The client calls arena_rewind(&arena, snaps[i]) with a snapshot whose
\* region has been released.  The call writes s.region->count and reads
\* s.region->next in storage given back to the backend: the process dies, or
\* it goes on with end pointing at that storage.  No assertion is evaluated.
RewindReleased(i) ==
    /\ Running
    /\ snaps[i].region \in released
    /\ \/ crashed' = TRUE /\ UNCHANGED arena
       \/ crashed' = FALSE /\ arena' = [arena EXCEPT !.end = snaps[i].region]
    /\ called' = "rewind"
    /\ result' = nullptr
    /\ UNCHANGED << regions, live, released, snaps, stale, aborted, pass, mark,
                    log, log2, set,
                    client, g, component, once >>

\* The builds of detail::free_region.
Backends == { "libc", "windows", "unix" }

\* detail::free_region(nullptr) reads through the null pointer.
free_region_null_derefs(backend) ==
    CASE backend = "libc"    -> FALSE
      [] backend = "windows" -> FALSE
      [] backend = "unix"    -> TRUE

\* The client calls detail::free_region(nullptr).
FreeRegionNull(backend) ==
    /\ Running
    /\ crashed' = free_region_null_derefs(backend)
    /\ called' = "free_region"
    /\ result' = nullptr
    /\ UNCHANGED << arena, regions, live, released, snaps, stale, aborted, pass,
                    mark, log, log2, set,
                    client, g, component, once >>

NextFaults ==
    \/ Next
    \/ \E bytes \in AllocBytes : AllocNoMem(bytes)
    \/ \E bytes \in AllocBytes : AllocNoMemAssert(bytes)
    \/ \E i \in 1 .. Len(snaps) : RewindReleased(i)
    \/ \E backend \in Backends : FreeRegionNull(backend)

SpecFaults == Init /\ [][NextFaults]_vars

\* =============================================================== claims
\* Words a block of `bytes` bytes occupies: bytes / word size, rounded up.
WordsOf(bytes) == (bytes + sizeof_uintptr_t - 1) \div sizeof_uintptr_t

\* Pointer p lies at or after the point of snapshot s: in s.region at word
\* offset >= s.count, or in a region after s.region in the chain.
AtOrAfter(p, s) ==
    \/ s.region = NULL
    \/ p.region = s.region /\ p.offset >= s.count
    \/ /\ PosIn(Chain, s.region) > 0
       /\ PosIn(Chain, p.region) > PosIn(Chain, s.region)

\* C1: snapshot/rewind round trip.  From any reachable arena state: capture
\* a snapshot, allocate a sequence of sizes, rewind to the snapshot, allocate
\* the same sizes again; the i-th allocation of the second pass returns the
\* address (region and word offset) the i-th of the first pass returned.
C1_RoundTrip ==
    pass = 2 => \A i \in 1 .. Len(log2) : log2[i].ptr = log[i].ptr

\* The spec's scenario: the marked region holds data, the first allocation
\* of the first pass went to another region, and the second pass is complete.
C1_Witness ==
    /\ pass = 2
    /\ Len(log) >= 2
    /\ Len(log2) = Len(log)
    /\ mark.region # NULL
    /\ mark.count > 0
    /\ log[1].ptr.region # mark.region
    /\ WordsOf(log[1].bytes) > 0

\* When the mark is captured, everything in use lies before it: its region
\* is used up to mark.count and the regions after it are empty.
C2_LiveBeforeMark ==
    pass = 1 /\ log = << >> =>
        /\ mark.region # NULL => regions[mark.region].count = mark.count
        /\ \A k \in (PosIn(Chain, mark.region) + 1) .. Len(Chain) :
              regions[Chain[k]].count = 0

\* Every block returned after the rewind to the mark lies at or after it.
C2_AfterRewind ==
    pass = 2 => \A i \in 1 .. Len(log2) : AtOrAfter(log2[i].ptr, mark)

\* A block just returned lies at or after every snapshot the client holds
\* that no rewind/reset/release has discarded.
C2_HeldSnapshot ==
    called \in {"alloc", "realloc"} /\ result # nullptr =>
        \A i \in 1 .. Len(snaps) : ~stale[i] => AtOrAfter(result, snaps[i])

\* A rewind to the snapshot arena_snapshot would return now changes nothing.
C2_JustCaptured ==
    /\ \A i \in 1 .. Len(snaps) :
          called' = "rewind" /\ snaps[i] = arena_snapshot(State) /\ Rewind(i)
              => UNCHANGED << arena, regions >>
    /\ called' = "rewind" /\ log = << >> /\ RewindToMark
          => UNCHANGED << arena, regions >>

\* C2: allocations made before a snapshot survive a rewind to it.  After
\* rewind(S) every block a later allocate returns starts at offset >= S.count
\* in S.region or lies in a region after it, so it overlaps no block that
\* was live when S was captured; and rewinding to a snapshot that was just
\* captured leaves every region's count and the cursor unchanged.
C2_SnapshotPreserves ==
    /\ [](C2_LiveBeforeMark /\ C2_AfterRewind /\ C2_HeldSnapshot)
    /\ [][C2_JustCaptured]_vars

\* The marked region held data at the mark, and after the rewind a block was
\* placed in that same region.
C2_Witness ==
    /\ pass = 2
    /\ Len(log2) >= 1
    /\ mark.region # NULL
    /\ mark.count > 0
    /\ log2[1].ptr.region = mark.region
    /\ WordsOf(log2[1].bytes) > 0

\* Sums over the log of a run on a fresh arena.
RECURSIVE SumBytes(_)
SumBytes(l) == IF l = << >> THEN 0 ELSE l[1].bytes + SumBytes(Tail(l))

RECURSIVE SumWords(_)
SumWords(l) == IF l = << >> THEN 0 ELSE WordsOf(l[1].bytes) + SumWords(Tail(l))

\* The logged blocks lie within the storage of one region of the chain, are
\* pairwise disjoint, and are ordered by offset in call order.
OneRegionInOrder(l) ==
    /\ \A i \in 1 .. Len(l) :
          /\ l[i].ptr.region = l[1].ptr.region
          /\ l[i].ptr.region \in Range(Chain)
          /\ l[i].ptr.offset + WordsOf(l[i].bytes)
                <= regions[l[i].ptr.region].capacity
    /\ \A i \in 1 .. Len(l) : \A j \in (i + 1) .. Len(l) :
          l[i].ptr.offset + WordsOf(l[i].bytes) <= l[j].ptr.offset

\* C3 as stated: from an empty arena, allocations whose byte counts sum to
\* at most one default region (default_capacity words times the word size)
\* all lie in one region, disjoint and in increasing order.
C3_Original ==
    SumBytes(log) <= KTL_ARENA_REGION_DEFAULT_CAPACITY * sizeof_uintptr_t
        => OneRegionInOrder(log)

\* C3 amended: the same for allocations whose sizes rounded up to words sum
\* to at most default_capacity words.
C3_OneRegion ==
    SumWords(log) <= KTL_ARENA_REGION_DEFAULT_CAPACITY => OneRegionInOrder(log)

\* At least two non-empty blocks that fill the default region exactly.
C3_Witness ==
    /\ pass = 3
    /\ Len(log) >= 2
    /\ \A i \in 1 .. Len(log) : log[i].bytes > 0
    /\ SumWords(log) = KTL_ARENA_REGION_DEFAULT_CAPACITY

\* The chain after the step.
ChainNext == ChainFrom(regions', arena'.begin)

\* The step is an arena_alloc call of `bytes` bytes, made by the client or
\* by the grow branch of arena_realloc.
AllocCall(bytes) ==
    \/ called' = "alloc" /\ Alloc(bytes)
    \/ /\ called' = "realloc"
       /\ \E oldsz \in OldBytes : bytes > oldsz /\ Realloc(oldsz, bytes)

\* What the step does to the arena is what rewind(s) is specified to do.
RewindEffect(s) ==
    LET c == Chain
        p == PosIn(c, s.region)
    IN  /\ ChainNext = c
        /\ arena'.begin = arena.begin
        /\ arena'.end = s.region
        /\ regions'[s.region].count = s.count
        /\ \A k \in 1 .. Len(c) :
              /\ regions'[c[k]].capacity = regions[c[k]].capacity
              /\ k > p => regions'[c[k]].count = 0
              /\ k < p => regions'[c[k]].count = regions[c[k]].count

\* C4: effect of rewind(arena, S) when S.region is a region of the chain:
\* S.region.count = S.count, every region after S.region has count 0, end is
\* S.region, every region before S.region keeps its count, and the chain
\* (regions, order, capacities, begin) is unchanged.
C4_RewindEffect ==
    [][\A i \in 1 .. Len(snaps) :
          called' = "rewind" /\ snaps[i].region # NULL /\ Rewind(i)
              => RewindEffect(snaps[i])]_vars

\* A rewind has just moved the cursor to the middle one of three regions,
\* with data kept before the snapshot's point.
C4_Witness ==
    /\ called = "rewind"
    /\ Len(Chain) = 3
    /\ Len(snaps) = 1
    /\ snaps[1].region = Chain[2]
    /\ snaps[1].count > 0
    /\ regions[Chain[1]].count > 0
    /\ arena.end = Chain[2]

\* The state reset leaves: all counts 0, end = begin, the chain unchanged.
ResetResult(r) ==
    /\ r.arena.begin = arena.begin
    /\ r.arena.end = arena.begin
    /\ ChainFrom(r.regions, r.arena.begin) = Chain
    /\ r.live = live
    /\ \A x \in Range(Chain) :
          /\ r.regions[x].count = 0
          /\ r.regions[x].capacity = regions[x].capacity

\* In this state reset, rewind to the "none" snapshot and rewind to
\* (begin, 0) yield one and the same state.
C5_Equivalent ==
    LET r == arena_reset(State) IN
    /\ ResetResult(r)
    /\ arena_rewind(State, ArenaSnapshot) = r
    /\ arena.begin # NULL =>
          arena_rewind(State, [region |-> arena.begin, count |-> 0]) = r

\* A reset step is a rewind to the "none" snapshot, and a rewind step to a
\* snapshot captured before any allocation is a reset.
C5_Steps ==
    /\ called' = "reset" /\ Reset => State' = arena_rewind(State, ArenaSnapshot)
    /\ \A i \in 1 .. Len(snaps) :
          /\ called' = "rewind"
          /\ snaps[i].count = 0
          /\ snaps[i].region \in {NULL, arena.begin}
          /\ Rewind(i)
          => State' = arena_reset(State)

\* C5: in every reachable state reset produces the state that rewinding to
\* a snapshot captured before any allocation produces, be it the "none"
\* snapshot or the snapshot (begin, 0): all counts 0, end = begin, chain
\* unchanged.
C5_ResetIsRewind == []C5_Equivalent /\ [][C5_Steps]_vars

\* The client holds the "none" snapshot of the then-empty arena, the arena
\* has since grown to three regions, and it has just been rewound to it.
C5_Witness ==
    /\ called = "rewind"
    /\ Len(snaps) = 1
    /\ snaps[1].region = NULL
    /\ Len(Chain) = 3
    /\ arena.end = arena.begin

\* C6: in every state reachable by allocate, realloc, snapshot, rewind,
\* reset, trim and full release, begin is none iff end is none, and when
\* they are not none end is reachable from begin by next links.
C6_BeginEnd ==
    /\ arena.begin = NULL <=> arena.end = NULL
    /\ arena.end # NULL => arena.end \in Range(Chain)

\* A full release of a chain of several regions has just been made.
C6_Witness ==
    /\ called = "free"
    /\ Cardinality(released) >= 2
    /\ arena.begin = NULL

\* C7: in every reachable state every region of the chain has
\* count <= capacity.
C7_CountWithinCapacity ==
    \A r \in Range(Chain) : regions[r].count <= regions[r].capacity

\* A rewind has just restored the count of a full oversized region.
C7_Witness ==
    /\ called = "rewind"
    /\ arena.end # NULL
    /\ regions[arena.end].capacity > KTL_ARENA_REGION_DEFAULT_CAPACITY
    /\ regions[arena.end].count = regions[arena.end].capacity

\* The cursor does not move to an earlier region in an allocate step.
AllocMovesForward ==
    called' \in {"alloc", "realloc"} =>
        PosIn(ChainNext, arena'.end) >= PosIn(ChainNext, arena.end)

\* The cursor does not move to a later region in the step.
EndNotLater == PosIn(Chain, arena'.end) <= PosIn(Chain, arena.end)

\* C8 as stated: in every allocate step end stays or moves to a later
\* region; in every rewind or reset step, with any snapshot whose region is
\* still in the chain, end stays or moves to an earlier region.
C8_Original ==
    [][/\ AllocMovesForward
       /\ called' \in {"rewind", "reset"} => EndNotLater]_vars

\* C8 amended: the same, for the rewinds whose snapshot has not been
\* discarded by a rewind, reset or release to a point before its capture
\* (snapshots used in stack order).
C8_CursorDirection ==
    [][/\ AllocMovesForward
       /\ called' = "reset" => EndNotLater
       /\ \A i \in 1 .. Len(snaps) :
             called' = "rewind" /\ ~stale[i] /\ Rewind(i) => EndNotLater]_vars

\* A rewind has just taken the cursor back to the first of three regions,
\* to a snapshot with data before it.
C8_Witness ==
    /\ called = "rewind"
    /\ Len(Chain) = 3
    /\ Len(snaps) = 1
    /\ snaps[1].region = arena.begin
    /\ snaps[1].count > 0
    /\ arena.end = arena.begin

\* No region from end to the tail of the chain has `size` free words.
NoRoomFromEnd(size) ==
    \/ arena.end = NULL
    \/ \A k \in PosIn(Chain, arena.end) .. Len(Chain) :
          regions[Chain[k]].count + size > regions[Chain[k]].capacity

\* The step creates a region, of capacity `size`, and places the block in it.
CreatesExact(size) ==
    \E r \in live' \ live :
        regions'[r].capacity = size /\ result'.region = r

\* C9 as stated: every allocate call whose rounded size exceeds
\* default_capacity words creates a new region, of capacity exactly the
\* rounded size.
C9_Original ==
    [][\A bytes \in AllocBytes :
          WordsOf(bytes) > KTL_ARENA_REGION_DEFAULT_CAPACITY /\ AllocCall(bytes)
              => CreatesExact(WordsOf(bytes))]_vars

\* C9 amended: such a call creates a region exactly when no region from end
\* to the tail of the chain has that much free room, and the region it
\* creates has capacity exactly the rounded size.
C9_ExactRegion ==
    [][\A bytes \in AllocBytes :
          WordsOf(bytes) > KTL_ARENA_REGION_DEFAULT_CAPACITY /\ AllocCall(bytes)
              => /\ NoRoomFromEnd(WordsOf(bytes)) <=> live' # live
                 /\ live' # live => CreatesExact(WordsOf(bytes))]_vars

\* An oversized block has just been placed in a region appended to a chain
\* that had regions already.
C9_Witness ==
    /\ called = "alloc"
    /\ Len(Chain) >= 2
    /\ arena.allocations_bigger_than_region_size = 0
    /\ result = Ptr(Chain[Len(Chain)], 0)
    /\ regions[result.region].capacity > KTL_ARENA_REGION_DEFAULT_CAPACITY
    /\ regions[result.region].count = regions[result.region].capacity

\* C10: with diagnostics enabled, every allocate call whose rounded size
\* exceeds default_capacity words increments the oversized-allocation
\* counter by exactly 1, in any reachable state, and no allocate call of
\* size <= default_capacity changes it.
C10_OversizedCounter ==
    [][\A bytes \in AllocBytes :
          AllocCall(bytes) =>
              arena'.allocations_bigger_than_region_size =
                  arena.allocations_bigger_than_region_size +
                  (IF WordsOf(bytes) > KTL_ARENA_REGION_DEFAULT_CAPACITY
                   THEN 1 ELSE 0)]_vars

\* A default-constructed Arena in the process as it is now.
FreshState == [State EXCEPT !.arena = Arena]

\* The tracing counters of an arena.
Counters(a) == << a.region_creations, a.allocations_bigger_than_region_size >>

\* C11 as stated: full release leaves the arena identical in every
\* observable field, begin, end and the tracing counters, to a freshly
\* constructed, never-used arena.
C11_Original == called = "free" => arena = Arena

\* After the release the arena owns nothing, and a snapshot or an allocation
\* gives what it gives on a fresh arena, the counters advancing by the same
\* amounts from the values they have.
C11_LikeFresh ==
    called = "free" =>
        /\ arena.begin = NULL
        /\ arena.end = NULL
        /\ live = {}
        /\ arena_snapshot(State) = arena_snapshot(FreshState)
        /\ \A bytes \in AllocBytes :
              CanAlloc(bytes) =>
                  LET a == arena_alloc(State, bytes)
                      f == arena_alloc(FreshState, bytes)
                  IN  /\ a.result = f.result
                      /\ a.st.regions = f.st.regions
                      /\ a.st.arena.begin = f.st.arena.begin
                      /\ a.st.arena.end = f.st.arena.end
                      /\ \A k \in 1 .. 2 :
                            Counters(a.st.arena)[k] - Counters(arena)[k]
                                = Counters(f.st.arena)[k]

\* C11 amended: full release from any reachable state leaves begin and end
\* none and no region owned, as in a freshly constructed arena, and any
\* operation applied afterwards yields the same results as on a fresh arena;
\* the tracing counters are not reset by the release: they keep their
\* values and go on counting from them.
C11_ReleaseLikeFresh ==
    /\ []C11_LikeFresh
    /\ [][called' = "free" => Counters(arena') = Counters(arena)]_vars

\* A full release of an arena that had created regions, one of them for an
\* oversized first allocation.
C11_Witness ==
    /\ called = "free"
    /\ arena.begin = NULL
    /\ arena.region_creations >= 2
    /\ arena.allocations_bigger_than_region_size = 1

\* The regions after end in the chain.
AfterEnd == Range(ChainFrom(regions, regions[arena.end].next))

\* The regions obtained from the backend and not released are exactly the
\* regions of the chain, each once, and none of them has been released.
C12_Owned ==
    /\ live = Range(Chain)
    /\ Cardinality(Range(Chain)) = Len(Chain)
    /\ live \cap released = {}

\* A step releases only regions the arena owns, so none twice, and never
\* takes a release back; full release releases the chain, trim the regions
\* after end.
C12_Releases ==
    /\ released \subseteq released'
    /\ released' \ released \subseteq live
    /\ live' \cap released' = {}
    /\ called' = "free" => released' \ released = Range(Chain) /\ live' = {}
    /\ called' = "trim" /\ ~crashed' =>
          released' \ released = AfterEnd /\ live' = live \ AfterEnd
    /\ called' \notin {"free", "trim"} => released' = released

\* C12: exclusive ownership without leaks or double release.  In every
\* reachable state the regions obtained from the backend and not yet
\* released are exactly the regions reachable from begin; full release
\* releases every region of the chain exactly once, trim every region
\* strictly after end exactly once; no region is ever released twice.
C12_Ownership == []C12_Owned /\ [][C12_Releases]_vars

\* A full release has just returned the last of the three regions the arena
\* ever created.
C12_Witness ==
    /\ called = "free"
    /\ Cardinality(released) = 3
    /\ live = {}
    /\ arena.region_creations = 3

\* C13: trim on a non-empty arena (in particular after a rewind) leaves the
\* chain consisting of exactly the regions from begin through end: end
\* becomes the last region (end.next is none), every region strictly after
\* end is released, and begin, end and the counts and capacities of all
\* retained regions are unchanged.
C13_TrimEffect ==
    [][called' = "trim" /\ ~crashed' =>
          LET c == Chain
              p == PosIn(c, arena.end)
          IN  /\ ChainNext = SubSeq(c, 1, p)
              /\ regions'[arena.end].next = NULL
              /\ arena' = arena
              /\ released' \ released = { c[k] : k \in (p + 1) .. Len(c) }
              /\ live' = { c[k] : k \in 1 .. p }
              /\ \A k \in 1 .. p :
                    /\ regions'[c[k]].count = regions[c[k]].count
                    /\ regions'[c[k]].capacity = regions[c[k]].capacity]_vars

\* The arena grew to three regions, the cursor was taken back to the first,
\* which holds data, and a trim has just released the other two.
C13_Witness ==
    /\ called = "trim"
    /\ Chain = << 1 >>
    /\ released = {2, 3}
    /\ regions[1].count > 0

\* C14: realloc(arena, p, old_size, new_size) with new_size <= old_size
\* returns p itself and leaves the arena state completely unchanged (no
\* region created, no count advanced, no cursor move, slack not reclaimed),
\* in any arena state including an empty arena.
C14_ShrinkNoOp ==
    [][\A oldsz \in OldBytes, newsz \in AllocBytes :
          newsz <= oldsz /\ called' = "realloc" /\ Realloc(oldsz, newsz)
              => result' = result /\ UNCHANGED << arena, regions, live, released >>]_vars

\* A realloc on an arena emptied by a full release has left it empty.
C14_Witness ==
    /\ called = "realloc"
    /\ arena.begin = NULL
    /\ arena.region_creations > 0
    /\ result = nullptr

\* The words of the block of `bytes` bytes at p, as (region, word) pairs.
BlockWords(p, bytes) ==
    { << p.region, w >> : w \in p.offset .. p.offset + RoundUp(bytes) - 1 }

\* The header of a region: what the allocator itself keeps about it.
Header(r) == [next |-> r.next, count |-> r.count, capacity |-> r.capacity]

\* C15: strict copy-on-grow.  realloc with new_size > old_size changes the
\* arena state exactly as allocate(arena, new_size) would (same chosen
\* region, same count advance) and returns that fresh block, never p
\* extended in place: the block shares no word with p's block, and is not p
\* when p's block has bytes; the first old_size bytes of the returned block
\* equal p's contents at call time and p's block is left unmodified.
C15_CopyOnGrow ==
    [][\A oldsz \in BlockBytes, newsz \in BlockBytes :
          newsz > oldsz /\ called' = "realloc" /\ ClientRealloc(oldsz, newsz) =>
              LET a == arena_alloc(State, newsz) IN
              /\ arena' = a.st.arena
              /\ live' = a.st.live
              /\ released' = a.st.released
              /\ \A r \in RegionIds : Header(regions'[r]) = Header(a.st.regions[r])
              /\ result' = a.result
              /\ BlockWords(result', newsz) \cap BlockWords(result, oldsz) = {}
              /\ oldsz > 0 => result' # result
              /\ \A k \in 0 .. oldsz - 1 :
                    /\ ByteAt(regions', result', k) = ByteAt(regions, result, k)
                    /\ ByteAt(regions', result, k) = ByteAt(regions, result, k)]_vars

\* The block grown was the most recent one of the current region, with free
\* room right after it; the block returned lies in that room and starts
\* with the byte the client had stored at the start of the old block.
C15_Witness ==
    /\ pass = 4
    /\ called = "realloc"
    /\ Len(log) >= 2
    /\ log[Len(log)].ptr = result
    /\ LET p == log[Len(log) - 1].ptr IN
         /\ p.region = result.region
         /\ result.offset = p.offset + 1
         /\ ByteAt(regions, p, 0) \in FillValues
         /\ ByteAt(regions, result, 0) = ByteAt(regions, p, 0)

\* C16: backend exhaustion with assertions disabled.  When the backend fails
\* to provide a region during an allocate call (for the first region of an
\* empty arena or for a region appended after end), allocate returns the
\* null sentinel to its caller instead of going on to use the missing
\* region, and the arena is left satisfying its invariants (begin none iff
\* end none, end reachable from begin).
C16_NullOnExhaustion ==
    [][\A bytes \in AllocBytes :
          AllocNoMem(bytes) => ~crashed' /\ result' = nullptr /\ C6_BeginEnd']_vars

\* C17: in a build with assertions enabled, rewinding with a snapshot whose
\* region is not a region of the arena's current chain (here: one that has
\* been released) ends in an assertion failure, rather than silently
\* setting end to a region that is not reachable from begin.
C17_StaleRewindAsserts ==
    [][\A i \in 1 .. Len(snaps) : RewindReleased(i) => aborted']_vars

\* C18: region size overflow is detected.  When header size + word size x
\* capacity exceeds the range of size_t, region creation fails with an
\* assertion and never requests a wrapped-around size from the backend: no
\* region is obtained with storage shorter than its header and capacity.
C18_OverflowDetected ==
    \A r \in live :
        regions[r].size >= sizeof_Region + sizeof_uintptr_t * regions[r].capacity

\* C19: for every backend, detail::free_region called with a null region
\* is a no-op: it touches no memory, makes no backend release call and
\* reports no failure.
C19_FreeNullNoOp ==
    [][\A backend \in Backends :
          FreeRegionNull(backend) =>
              ~crashed' /\ ~aborted' /\ UNCHANGED << arena, regions, live, released >>]_vars

\* C20: snapshot, rewind and reset never call the backend.  In any
\* reachable state they neither create nor release a region, so the set of
\* regions, their order and their capacities are the same before and after;
\* snapshot additionally leaves every count and the cursor unchanged, and on
\* an empty arena returns the "none" snapshot without creating a region.
C20_NoBackendCall ==
    [][called' \in {"snapshot", "rewind", "reset"} =>
          /\ live' = live
          /\ released' = released
          /\ ChainNext = Chain
          /\ \A r \in Range(Chain) :
                /\ regions'[r].capacity = regions[r].capacity
                /\ regions'[r].size = regions[r].size
          /\ called' = "snapshot" =>
                /\ UNCHANGED << arena, regions >>
                /\ snaps'[Len(snaps')].region = arena.end
                /\ arena.end = NULL => snaps'[Len(snaps')] = ArenaSnapshot]_vars

\* A reset has just emptied an arena of three regions, one of them created
\* for an oversized request, and all three are still owned.
C20_Witness ==
    /\ called = "reset"
    /\ Len(Chain) = 3
    /\ live = Range(Chain)
    /\ released = {}
    /\ \E r \in live : regions[r].capacity > KTL_ARENA_REGION_DEFAULT_CAPACITY
    /\ \A r \in live : regions[r].count = 0

\* ------------------------------------------------------------------ C21
\* The regions the backend has created for the arena since construction.
Created == live \cup released

\* The regions a step creates.
CreatedByStep == (live' \cup released') \ Created

\* The counter is the number of regions in the chain plus the number of
\* regions released so far.
C21_Total ==
    /\ live = Range(Chain)
    /\ arena.region_creations = Len(Chain) + Cardinality(released)

\* A step adds to the counter the number of regions it creates, at most one;
\* only arena_alloc and arena_realloc create any.
C21_Step ==
    /\ arena'.region_creations = arena.region_creations + Cardinality(CreatedByStep)
    /\ Cardinality(CreatedByStep) <= 1
    /\ called' \notin {"alloc", "realloc"} => CreatedByStep = {}

\* C21: in every reachable state the regions-created counter equals the
\* number of regions in the chain plus the number of regions released so far
\* by arena_trim or arena_free; it grows by exactly one per region creation
\* and no other operation changes it.
C21_RegionCreations == [](C21_Total) /\ [][C21_Step]_vars

\* Three regions were created, some of them released since, some in the chain.
C21_Witness ==
    /\ arena.region_creations = MaxRegions
    /\ released # {}
    /\ arena.begin # NULL
    /\ called = "alloc"

\* ------------------------------------------------------ allocator adapter
\* A container draws storage from the default-constructed arena through an
\* ArenaAllocator<T> bound to it: up to MaxLog calls of allocate, deallocate
\* of blocks it got, and arena_reset in between.  The build has assertions
\* enabled (pass = 6) or defines NDEBUG (pass = 7).
InitAdapter == Fresh /\ pass \in {6, 7}

\* Element counts the container asks for: none, one, three, five (more than
\* a default region), and two whose byte count does not fit size_t.
ElementCounts ==
    { 0, 1, 3, 5, SIZE_MODULUS \div sizeof_T, SIZE_MODULUS \div sizeof_T + 1 }

\* allocator.allocate(n)
AdapterAllocate(n) ==
    /\ pass \in {6, 7}
    /\ Len(log) < MaxLog
    /\ CanAlloc((n * sizeof_T) % SIZE_MODULUS)
    /\ LET r == ArenaAllocator_allocate(State, n, pass = 7) IN
         /\ SetState(r.st)
         /\ result' = r.result
         /\ log' = Append(log, [n |-> n, ptr |-> r.result, deallocated |-> FALSE])
    /\ called' = "allocate"
    /\ UNCHANGED << snaps, stale, crashed, aborted, pass, mark, log2, set, client,
                    g, component, once >>

\* allocator.deallocate(p, n), p a block the container got from allocate(n)
\* and has not given back.
AdapterDeallocate(i) ==
    /\ pass \in {6, 7}
    /\ log[i].ptr # nullptr
    /\ ~log[i].deallocated
    /\ SetState(ArenaAllocator_deallocate(State, log[i].ptr, log[i].n))
    /\ log' = [log EXCEPT ![i].deallocated = TRUE]
    /\ called' = "deallocate"
    /\ UNCHANGED << snaps, stale, result, crashed, aborted, pass, mark, log2, set,
                    client, g, component, once >>

\* arena_reset(&arena): the container's blocks are gone.
AdapterReset ==
    /\ pass \in {6, 7}
    /\ log # << >>
    /\ SetState(arena_reset(State))
    /\ log' = << >>
    /\ called' = "reset"
    /\ result' = nullptr
    /\ UNCHANGED << snaps, stale, crashed, aborted, pass, mark, log2, set, client,
                    g, component, once >>

NextAdapter ==
    \/ \E n \in ElementCounts : AdapterAllocate(n)
    \/ \E i \in 1 .. Len(log) : AdapterDeallocate(i)
    \/ AdapterReset

SpecAdapter == InitAdapter /\ [][NextAdapter]_vars

\* ------------------------------------------------------------------ C22
\* The arena and its heap.
ArenaState == << arena, regions, live, released >>

\* The step's result and effect are those of arena_alloc(&arena, bytes).
SameAsAlloc(bytes) ==
    LET r == arena_alloc(State, bytes) IN
    /\ result' = r.result
    /\ arena' = r.st.arena
    /\ regions' = r.st.regions
    /\ live' = r.st.live
    /\ released' = r.st.released

\* n * sizeof(T) does not fit size_t.
ProductOverflows(n) == n > (SIZE_MODULUS - 1) \div sizeof_T

\* The words of block i of the log.
AdapterWords(i) == RoundUp((log[i].n * sizeof_T) % SIZE_MODULUS)

\* A block given back through the adapter shares no word with a block handed
\* out after it.
NotHandedOutAgain ==
    \A i, j \in 1 .. Len(log) :
        /\ i < j
        /\ log[i].deallocated
        /\ log[i].ptr # nullptr /\ log[j].ptr # nullptr
        /\ log[i].ptr.region = log[j].ptr.region
        => log[i].ptr.offset + AdapterWords(i) <= log[j].ptr.offset

\* deallocate changes nothing of the arena.
DeallocateNoOp == called' = "deallocate" => UNCHANGED ArenaState

\* The claim as stated: every allocate(n) is arena_alloc(arena, n * sizeof(T)),
\* the product taken in size_t.
C22_Original ==
    [][called' = "allocate" =>
          SameAsAlloc((log'[Len(log')].n * sizeof_T) % SIZE_MODULUS)]_vars

\* C22: ArenaAllocator<T>::allocate(n) has the result and the effect on the
\* arena of arena_alloc(arena, n * sizeof(T)) whenever n * sizeof(T) fits
\* size_t, and in an NDEBUG build also when it does not (the product wraps);
\* in a build with assertions allocate(n) with a product that does not fit
\* returns nullptr and leaves the arena unchanged.  deallocate(ptr, n)
\* leaves the arena state unchanged, and storage given back through the
\* adapter is not handed out again before a reset.
C22_Adapter ==
    /\ [][called' = "allocate" =>
             LET n == log'[Len(log')].n IN
             IF pass = 6 /\ ProductOverflows(n)
             THEN result' = nullptr /\ UNCHANGED ArenaState
             ELSE SameAsAlloc((n * sizeof_T) % SIZE_MODULUS)]_vars
    /\ [][DeallocateNoOp]_vars
    /\ []NotHandedOutAgain

\* A block was given back, then a request whose byte count does not fit was
\* refused, then a block was handed out from the region of the first.
C22_Witness ==
    /\ pass = 6
    /\ Len(log) = 3
    /\ log[1].deallocated
    /\ ProductOverflows(log[2].n) /\ log[2].ptr = nullptr
    /\ log[3].ptr # nullptr /\ log[3].n > 0
    /\ log[3].ptr.region = log[1].ptr.region
    /\ called = "allocate"

\* ------------------------------------------------------------------ C23
\* The arena whose chain ends at the region of snapshot s.
ChainCutAt(st, s) == [st EXCEPT !.regions[s.region].next = NULL]

\* C23: arena_snapshot and arena_rewind each take a number of steps bounded
\* by a constant that does not depend on the number of regions in the chain
\* or on the number of allocations discarded: a rewind to a snapshot the
\* client holds costs what it costs when no region follows the snapshot's
\* region, and a snapshot costs the same in every state.
C23_ConstantSteps ==
    /\ arena_snapshot_steps(State) = arena_snapshot_steps([State EXCEPT !.arena = Arena])
    /\ \A i \in 1 .. Len(snaps) :
          snaps[i].region # NULL /\ Rewindable(snaps[i]) =>
             arena_rewind_steps(State, snaps[i])
                 = arena_rewind_steps(ChainCutAt(State, snaps[i]), snaps[i])

\* ------------------------------------------------------ sparse_set client
\* A client of a default-constructed sparse_set<T> (ID is size_t): it
\* inserts, assigns through operator[], erases stored elements by id, creates
\* handles for stored elements, calls remove_if and clear.

\* Elements the set holds at once.
MaxElems == 3
\* Handles the client creates.
MaxHandles == 2
\* The validity id a slot may reach (bound of the model).
MaxValidity == 2

\* The values of T the client stores.
Values == { 1, 2 }

\* The ids the client may hold or ask about.
Ids == 0 .. MaxElems

\* The ids of the stored elements, as the client knows them.
LiveIds == DOMAIN client.stored

\* The validity id of the slot of id.
ValidityOf(s, id) == At(s.metadata, At(s.indexes, id)).validity_id

\* The client notes that the elements with these ids are erased.
Forget(ids) ==
    [client EXCEPT
        !.stored = [i \in LiveIds \ ids |-> client.stored[i]],
        !.handles = [k \in 1 .. Len(@) |->
                        [@[k] EXCEPT !.erased = @ \/ client.handles[k].id \in ids]]]

InitSparseSet == Fresh /\ pass = 8

\* id = set.push_back(obj) / set.emplace_back(obj)
PushBack(obj) ==
    /\ pass = 8
    /\ set_size(set) < MaxElems
    /\ Len(set.metadata) > set_size(set) =>
          At(set.metadata, set_size(set)).validity_id < MaxValidity
    /\ LET r == push_back(set, obj) IN
         /\ set' = r.set
         /\ client' = [client EXCEPT
                          !.ret = r.id,
                          !.stored = [i \in LiveIds \cup {r.id} |->
                                         IF i = r.id THEN obj ELSE client.stored[i]],
                          !.issued = @ \cup {r.id},
                          !.freed = SelectSeq(@, LAMBDA i : i # r.id)]
    /\ called' = "push_back"
    /\ UNCHANGED << arena, regions, live, released, snaps, stale, result, crashed,
                    aborted, pass, mark, log, log2, g, component, once >>

\* set[id] = obj, id the id of a stored element
Store(id, obj) ==
    /\ pass = 8
    /\ id \in LiveIds
    /\ client.stored[id] # obj
    /\ set' = Assign(set, id, obj)
    /\ client' = [client EXCEPT !.stored[id] = obj]
    /\ called' = "assign"
    /\ UNCHANGED << arena, regions, live, released, snaps, stale, result, crashed,
                    aborted, pass, mark, log, log2, g, component, once >>

\* set.erase(id), id the id of a stored element
Erase(id) ==
    /\ pass = 8
    /\ id \in LiveIds
    /\ ValidityOf(set, id) < MaxValidity
    /\ set' = erase(set, id)
    /\ client' = [Forget({id}) EXCEPT !.freed = Append(@, id)]
    /\ called' = "erase"
    /\ UNCHANGED << arena, regions, live, released, snaps, stale, result, crashed,
                    aborted, pass, mark, log, log2, g, component, once >>

\* h = set.create_handle(id), id the id of a stored element
CreateHandle(id) ==
    /\ pass = 8
    /\ id \in LiveIds
    /\ Len(client.handles) < MaxHandles
    /\ LET h == create_handle(set, id) IN
         client' = [client EXCEPT
                       !.handles = Append(@, [id |-> h.id, validity_id |-> h.validity_id,
                                              erased |-> FALSE])]
    /\ called' = "create_handle"
    /\ UNCHANGED << arena, regions, live, released, snaps, stale, result, crashed,
                    aborted, pass, mark, log, log2, set, g, component, once >>

\* set.remove_if(predicate), predicate accepting the values of the set
\* accepted
RemoveIf(accepted) ==
    /\ pass = 8
    /\ \A id \in LiveIds :
          client.stored[id] \in accepted => ValidityOf(set, id) < MaxValidity
    /\ set' = remove_if(set, accepted, 0).set
    /\ client' = [Forget({id \in LiveIds : client.stored[id] \in accepted})
                     EXCEPT !.ret = remove_if(set, accepted, 0).steps,
                            !.freed = << >>]
    /\ called' = "remove_if"
    /\ UNCHANGED << arena, regions, live, released, snaps, stale, result, crashed,
                    aborted, pass, mark, log, log2, g, component, once >>

\* set.clear()
Clear ==
    /\ pass = 8
    /\ \A k \in 1 .. Len(set.metadata) : set.metadata[k].validity_id < MaxValidity
    /\ set' = clear(set)
    /\ client' = [Forget(LiveIds) EXCEPT !.freed = << >>]
    /\ called' = "clear"
    /\ UNCHANGED << arena, regions, live, released, snaps, stale, result, crashed,
                    aborted, pass, mark, log, log2, g, component, once >>

NextSparseSet ==
    \/ \E obj \in Values : PushBack(obj)
    \/ \E id \in Ids, obj \in Values : Store(id, obj)
    \/ \E id \in Ids : Erase(id)
    \/ \E id \in Ids : CreateHandle(id)
    \/ \E accepted \in SUBSET Values : RemoveIf(accepted)
    \/ Clear

SpecSparseSet == InitSparseSet /\ [][NextSparseSet]_vars

\* ------------------------------------------------------------------ C24
\* C24: for every id that an insert returned and that has not been erased
\* since, set[id] is the value inserted under that id, as last assigned
\* through it; erasing other ids does not change what a live id refers to;
\* size() is the number of live ids.
C24_IdStability ==
    /\ set_size(set) = Cardinality(LiveIds)
    /\ \A id \in LiveIds : Subscript(set, id) = client.stored[id]

\* An erase has moved the last element into the slot of the erased one: a
\* stored element is not at the index it was inserted at.
C24_Witness ==
    /\ called = "erase"
    /\ set_size(set) = 2
    /\ \E id \in LiveIds : At(set.indexes, id) # id
    /\ \E id \in LiveIds : client.stored[id] = 1
    /\ \E id \in LiveIds : client.stored[id] = 2

\* ------------------------------------------------------------------ C25
\* C25: a handle reports valid() exactly if its element has not been erased,
\* by erase, by remove_if or by clear, since the handle was created; this
\* includes handles whose id has been given to a later insert.  After
\* clear() the set is empty and every handle is invalid.
C25_HandleValidity ==
    /\ \A k \in 1 .. Len(client.handles) :
          LET h == client.handles[k] IN
          valid(set, h.id, h.validity_id) <=> ~h.erased
    /\ called = "clear" =>
          /\ set_size(set) = 0
          /\ \A k \in 1 .. Len(client.handles) :
                ~valid(set, client.handles[k].id, client.handles[k].validity_id)

\* The client holds a handle to an erased element whose id is in use again,
\* and a handle to the element that has the id now.
C25_Witness ==
    /\ called = "create_handle"
    /\ Len(client.handles) = 2
    /\ client.handles[1].erased
    /\ ~client.handles[2].erased
    /\ client.handles[1].id = client.handles[2].id
    /\ client.handles[1].id \in LiveIds

\* ------------------------------------------------------------------ C26
\* The id the client erased most recently and has not been given again.
LastFreed == client.freed[Len(client.freed)]

\* C26: get_next_id() is the id the immediately following insert returns;
\* an insert right after erase(id) returns id, and the ids erased one by one
\* are given out again most recently erased first; when every id given out
\* so far is the id of a stored element, the insert returns a new id, equal
\* to the size of the set.
C26_IdReuse ==
    [][called' = "push_back" =>
          /\ client'.ret = get_next_id(set)
          /\ called = "erase" => client'.ret = LastFreed
          /\ client.freed # << >> => client'.ret = LastFreed
          /\ client.issued = LiveIds =>
                /\ client'.ret = set_size(set)
                /\ client'.ret \notin client.issued]_vars

\* Two ids were erased one after the other and the set has given out the
\* second of them again: the first is the next.
C26_Witness ==
    /\ called = "push_back"
    /\ Len(client.freed) = 1
    /\ client.ret \in client.issued
    /\ client.ret > LastFreed
    /\ Cardinality(client.issued) = MaxElems
    /\ set_size(set) = MaxElems - 1
    /\ \A k \in 1 .. Len(set.metadata) :
          set.metadata[k].validity_id
              = IF set.metadata[k].rid = client.ret THEN 2
                ELSE IF set.metadata[k].rid = LastFreed THEN 1 ELSE 0

\* ------------------------------------------------------------------ C27
\* The elements of the set that the predicate accepts.
Accepted(s, accepted) == { k \in 1 .. Len(s._data) : s._data[k] \in accepted }

\* What remove_if(accepted) leaves behind.
RemoveIfEffect(accepted) ==
    /\ client'.ret = set_size(set)
    /\ Accepted(set', accepted) = {}
    /\ set_size(set') = set_size(set) - Cardinality(Accepted(set, accepted))
    /\ \A id \in LiveIds :
          Subscript(set, id) \notin accepted =>
             /\ id \in DOMAIN client'.stored
             /\ Subscript(set', id) = Subscript(set, id)
    /\ \A k \in 1 .. Len(client.handles) :
          LET h == client.handles[k] IN
          valid(set, h.id, h.validity_id) /\ Subscript(set, h.id) \notin accepted
              => valid(set', h.id, h.validity_id)

\* C27: remove_if(pred) ends after one iteration per element of the set and
\* leaves exactly the elements that do not satisfy pred: no stored element
\* satisfies pred, every element that did not satisfy it is accessible under
\* its id with its handles valid, and size() has dropped by the number of
\* elements that satisfied pred.
C27_RemoveIf ==
    [][called' = "remove_if" =>
          \A accepted \in SUBSET Values :
              RemoveIf(accepted) => RemoveIfEffect(accepted)]_vars

\* Of three elements inserted in a row the first and the last have been
\* removed by one remove_if: the last one was moved into the slot of the
\* first and removed from there.
C27_Witness ==
    /\ called = "remove_if"
    /\ client.ret = MaxElems
    /\ Len(set.metadata) = MaxElems
    /\ LiveIds = {1}
    /\ \A k \in 1 .. Len(set.metadata) :
          set.metadata[k].validity_id = IF set.metadata[k].rid = 1 THEN 0 ELSE 1
    /\ \E k \in 1 .. Len(client.handles) :
          client.handles[k].id = 1 /\ ~client.handles[k].erased

\* ------------------------------------------------------------------ C28
\* C28: valid_id(id) is true exactly for the ids of the elements the set
\* stores.
C28_ValidId == \A id \in Ids : valid_id(set, id) <=> id \in LiveIds

\* ------------------------------------------------------------ grid client
\* Clients of a grid<T>: one constructs a grid with one of the growth
\* strategies, writes cells and resizes the grid; the other constructs a
\* grid, writes cells and asks for connected components.  A grid is at most
\* MaxDim wide and high and has at most MaxCells cells.

\* The largest width and height of a grid.
MaxDim == 3
\* The largest number of cells of a grid.
MaxCells == 6

\* Widths and heights.
Dims == 0 .. MaxDim

\* The cell values.
Cells == { 0, 1 }

\* The options the client constructs a grid with: each growth strategy, and
\* one strategy together with GRID_NO_RETAIN_STATE.
GridOpts ==
    { GRID_GROW_BOTTOM_RIGHT, GRID_GROW_BOTTOM_LEFT, GRID_GROW_TOP_RIGHT,
      GRID_GROW_TOP_LEFT, GRID_GROW_OUTWARD,
      GRID_GROW_TOP_LEFT + GRID_NO_RETAIN_STATE }

\* Positions the client passes: the cells of the largest grid and the
\* positions one beyond it.
Positions == { pos2_size(x, y) : x \in Dims, y \in Dims }

InitGrid == Fresh /\ pass = 9

\* grid<T> g(width, height, def_val, opts)
Construct(width, height, def_val, opts) ==
    /\ pass = 9
    /\ g = NoGrid
    /\ width * height <= MaxCells
    /\ g' = grid(width, height, def_val, opts)
    /\ called' = "grid"
    /\ UNCHANGED << arena, regions, live, released, snaps, stale, result, crashed,
                    aborted, pass, mark, log, log2, set, client, component, once >>

\* g.xy(x, y) = val, (x, y) a cell of the grid; the client drops the list it
\* got for the grid before the change.
SetCell(p, val) ==
    /\ pass = 9
    /\ g # NoGrid
    /\ in_bounds(g, p)
    /\ xy(g, p.x, p.y) # val
    /\ g' = SetXY(g, p.x, p.y, val)
    /\ component' = << >>
    /\ called' = "xy"
    /\ UNCHANGED << arena, regions, live, released, snaps, stale, result, crashed,
                    aborted, pass, mark, log, log2, set, client, once >>

\* g.resize(new_width, new_height, def_val)
Resize(new_width, new_height, def_val) ==
    /\ pass = 9
    /\ g # NoGrid
    /\ new_width * new_height <= MaxCells
    /\ g' = resize(g, new_width, new_height, def_val)
    /\ component' = << >>
    /\ called' = "resize"
    /\ UNCHANGED << arena, regions, live, released, snaps, stale, result, crashed,
                    aborted, pass, mark, log, log2, set, client, once >>

\* component = g.get_connected_component(start, predicate, orthogonal)
GetComponent(start, predicate, orthogonal) ==
    /\ pass = 9
    /\ g # NoGrid
    /\ component' = get_connected_component(g, start, predicate, orthogonal).visited_positions
    /\ called' = "get_connected_component"
    /\ UNCHANGED << arena, regions, live, released, snaps, stale, result, crashed,
                    aborted, pass, mark, log, log2, set, client, g, once >>

\* The client that constructs, writes and resizes.
NextGrid ==
    \/ \E width \in Dims, height \in Dims, def_val \in Cells, opts \in GridOpts :
          Construct(width, height, def_val, opts)
    \/ \E p \in Positions, val \in Cells : SetCell(p, val)
    \/ \E new_width \in Dims, new_height \in Dims, def_val \in Cells :
          Resize(new_width, new_height, def_val)

SpecGrid == InitGrid /\ [][NextGrid]_vars

\* The client that constructs a grid with the default options, writes cells
\* and asks for connected components.
NextFlood ==
    \/ \E width \in Dims, height \in Dims, def_val \in Cells :
          Construct(width, height, def_val, GRID_GROW_BOTTOM_RIGHT)
    \/ \E p \in Positions, val \in Cells : SetCell(p, val)
    \/ \E start \in Positions, predicate \in SUBSET Cells, orthogonal \in BOOLEAN :
          GetComponent(start, predicate, orthogonal)

SpecFlood == InitGrid /\ [][NextFlood]_vars

\* ------------------------------------------------------------------ C29
\* The larger of a - b and 0.
Growth(to, from) == IF to > from THEN to - from ELSE 0

\* The horizontal and the vertical shift of the old contents under the
\* growth strategy of the grid.
ShiftX(new_width) ==
    IF GrowBits(g.opts) \in {GRID_GROW_BOTTOM_RIGHT, GRID_GROW_TOP_RIGHT} THEN 0
    ELSE IF GrowBits(g.opts) \in {GRID_GROW_BOTTOM_LEFT, GRID_GROW_TOP_LEFT}
    THEN Growth(new_width, g.width)
    ELSE Growth(new_width, g.width) \div 2

ShiftY(new_height) ==
    IF GrowBits(g.opts) \in {GRID_GROW_BOTTOM_RIGHT, GRID_GROW_BOTTOM_LEFT} THEN 0
    ELSE IF GrowBits(g.opts) \in {GRID_GROW_TOP_RIGHT, GRID_GROW_TOP_LEFT}
    THEN Growth(new_height, g.height)
    ELSE Growth(new_height, g.height) \div 2

\* What resize(new_width, new_height, def_val) does to the grid.
ResizeEffect(new_width, new_height, def_val) ==
    IF new_width = g.width /\ new_height = g.height
    THEN g' = g
    ELSE /\ g'.width = new_width
         /\ g'.height = new_height
         /\ g'.opts = g.opts
         /\ Len(g'.data) = new_width * new_height
         /\ \A x \in 0 .. new_width - 1, y \in 0 .. new_height - 1 :
               LET ox == x - ShiftX(new_width)
                   oy == y - ShiftY(new_height)
               IN  xy(g', x, y) =
                       IF /\ 0 <= ox /\ ox < Min(g.width, new_width)
                          /\ 0 <= oy /\ oy < Min(g.height, new_height)
                       THEN xy(g, ox, oy)
                       ELSE def_val

\* C29: resize(new_w, new_h, def) of a grid without GRID_NO_RETAIN_STATE
\* puts every old cell (x, y) with x < min(w, new_w), y < min(h, new_h) at
\* (x + ox, y + oy), ox and oy the shifts of the growth strategy; every other
\* cell of the new grid is def; width and height are new_w and new_h;
\* resizing to the current dimensions changes nothing.
C29_Resize ==
    [][called' = "resize" /\ ~NoRetain(g.opts) =>
          \A new_width \in Dims, new_height \in Dims, def_val \in Cells :
              Resize(new_width, new_height, def_val)
                  => ResizeEffect(new_width, new_height, def_val)]_vars

\* A grid that grows outward has been widened by two columns: the old cell
\* is in the middle.
C29_Witness ==
    /\ called = "resize"
    /\ GrowBits(g.opts) = GRID_GROW_OUTWARD
    /\ ~NoRetain(g.opts)
    /\ g.width = MaxDim /\ g.height = 1
    /\ g.data = << 0, 1, 0 >>

\* ------------------------------------------------------------------ C30
\* Cells p and q are adjacent: they share a side or, unless orthogonal, a
\* corner.
Adjacent(p, q, orthogonal) ==
    LET dx == IF p.x > q.x THEN p.x - q.x ELSE q.x - p.x
        dy == IF p.y > q.y THEN p.y - q.y ELSE q.y - p.y
    IN  IF orthogonal THEN dx + dy = 1 ELSE dx <= 1 /\ dy <= 1 /\ dx + dy > 0

\* The cells of the grid.
CellsOf(gr) == { p \in Positions : in_bounds(gr, p) }

\* The cells reachable from the cells of S through adjacent cells whose
\* value is in predicate.
RECURSIVE Reachable(_, _, _, _)
Reachable(gr, S, predicate, orthogonal) ==
    LET more == { p \in CellsOf(gr) \ S :
                     /\ xy(gr, p.x, p.y) \in predicate
                     /\ \E q \in S : Adjacent(p, q, orthogonal) }
    IN  IF more = {} THEN S ELSE Reachable(gr, S \cup more, predicate, orthogonal)

\* The call returns what the claim says, after one iteration of its loop per
\* position it lists.
ComponentEffect(gr, start, predicate, orthogonal) ==
    LET r == get_connected_component(gr, start, predicate, orthogonal)
        c == r.visited_positions
        matches == IF in_bounds(gr, start)
                   THEN xy(gr, start.x, start.y) \in predicate ELSE FALSE
    IN  IF ~matches THEN c = << >>
        ELSE /\ c[1] = start
             /\ Cardinality(Range(c)) = Len(c)
             /\ Range(c) = Reachable(gr, {start}, predicate, orthogonal)
             /\ r.iterations = Len(c)

\* C30: on every grid get_connected_component(start, pred, orthogonal)
\* terminates and returns exactly the cells reachable from start through
\* adjacent cells satisfying pred (4 neighbours when orthogonal, 8
\* otherwise), each once, start first; the list is empty when start is out
\* of bounds or does not satisfy pred.
C30_ConnectedComponent ==
    g # NoGrid =>
        /\ \A start \in Positions, predicate \in SUBSET Cells, orthogonal \in BOOLEAN :
               ComponentEffect(g, start, predicate, orthogonal)
        /\ called = "get_connected_component" =>
               \E start \in Positions, predicate \in SUBSET Cells, orthogonal \in BOOLEAN :
                   component = get_connected_component(g, start, predicate,
                                                       orthogonal).visited_positions

\* The call has returned the two cells on one side of a wall that runs
\* across the grid; the cells on the other side satisfy the predicate too.
C30_Witness ==
    /\ called = "get_connected_component"
    /\ g.width = MaxDim /\ g.height = 2
    /\ g.data = << 0, 1, 0, 0, 1, 0 >>
    /\ Len(component) = 2
    /\ component[1] = pos2_size(0, 0)

\* ------------------------------------------------------ first-fit scan
\* Region r has `size` free words.
HasRoom(r, size) == regions[r].capacity - regions[r].count >= size

\* The positions in the chain, from end on, of the regions with `size` free
\* words.
RoomFromEnd(size) ==
    IF arena.end = NULL THEN {}
    ELSE { k \in PosIn(Chain, arena.end) .. Len(Chain) : HasRoom(Chain[k], size) }

\* The step places the block in the first region from end on that has room,
\* and creates no region.
PlacesFirstFit(size) ==
    LET k == CHOOSE k \in RoomFromEnd(size) : \A j \in RoomFromEnd(size) : k <= j IN
    /\ result'.region = Chain[k]
    /\ arena'.end = Chain[k]
    /\ live' = live
    /\ ChainNext = Chain

\* The step creates one region, links it after the last region of the chain,
\* makes it end and places the block in it.
PlacesInNewTail ==
    \E r \in live' \ live :
        /\ live' = live \cup {r}
        /\ ChainNext = Append(Chain, r)
        /\ arena'.end = r
        /\ result'.region = r

\* The regions of the chain before end.
BeforeEnd == { Chain[k] : k \in 1 .. PosIn(Chain, arena.end) - 1 }

\* C31: first-fit forward scan.  allocate places the block in the first
\* region, scanning forward from end (end included), whose free space
\* capacity - count is at least the rounded size; it creates a region only
\* when the arena is empty or no region from end to the tail has that much
\* room, and then the new region is appended after the last region and
\* becomes end; it never places a block in a region before end.
C31_FirstFit ==
    [][\A bytes \in AllocBytes :
          AllocCall(bytes) =>
              /\ IF RoomFromEnd(WordsOf(bytes)) # {}
                 THEN PlacesFirstFit(WordsOf(bytes))
                 ELSE PlacesInNewTail
              /\ result'.region \notin BeforeEnd]_vars

\* A block of one word has just been placed in the second region of the
\* chain although the first region is empty: the cursor stood past it.
C31_Witness ==
    /\ called = "alloc"
    /\ Len(Chain) >= 2
    /\ result.region = Chain[2]
    /\ regions[result.region].count = result.offset + 1
    /\ regions[Chain[1]].count = 0
    /\ regions[Chain[1]].capacity >= 1

\* ------------------------------------------------------------ bump step
\* The count of region r before the step; a region the step creates starts
\* with count 0.
CountBefore(r) == IF r \in live THEN regions[r].count ELSE 0

\* The step leaves the count and the capacity of region r alone.
KeepsHeader(r) ==
    /\ regions'[r].count = regions[r].count
    /\ regions'[r].capacity = regions[r].capacity

\* C32: bump step and its frame.  allocate(bytes) with size = ceil(bytes /
\* word size) returns the block at the word offset equal to the chosen
\* region's count before the call, increases that one region's count by
\* exactly size, and changes the count and capacity of no other region;
\* regions the forward scan skips keep their counts.
C32_BumpStep ==
    [][\A bytes \in AllocBytes :
          AllocCall(bytes) =>
              /\ result'.region \in live'
              /\ result'.offset = CountBefore(result'.region)
              /\ regions'[result'.region].count
                    = CountBefore(result'.region) + WordsOf(bytes)
              /\ result'.region \in live =>
                    regions'[result'.region].capacity
                        = regions[result'.region].capacity
              /\ \A r \in live \ {result'.region} : KeepsHeader(r)]_vars

\* The cursor stood in the first of three regions, which holds one word and
\* is covered by a snapshot; a block of two words has just been placed at
\* the start of the second region, and the first still holds its word.
C32_Witness ==
    /\ called = "alloc"
    /\ Len(Chain) = 3
    /\ snaps = << [region |-> Chain[1], count |-> 1] >>
    /\ ~stale[1]
    /\ result = Ptr(Chain[2], 0)
    /\ regions[Chain[2]].count = 2
    /\ regions[Chain[1]].count = 1

\* ------------------------------------------------- regions after the cursor
\* The regions of the chain strictly after end.
StrictlyAfterEnd ==
    IF arena.end = NULL THEN {}
    ELSE { Chain[k] : k \in (PosIn(Chain, arena.end) + 1) .. Len(Chain) }

\* C33: in every state reachable by allocate, realloc, snapshot, rewind (to
\* any snapshot whose region is still in the chain, in stack order or not),
\* reset and trim, every region strictly after the cursor end has count 0.
C33_EmptyAfterEnd == \A r \in StrictlyAfterEnd : regions[r].count = 0

\* A rewind out of stack order has just put the cursor on the second of
\* three regions: the first region is empty although the second, a region
\* of the default capacity, holds data, and a region follows the cursor.
C33_Witness ==
    /\ called = "rewind"
    /\ Len(Chain) = 3
    /\ arena.end = Chain[2]
    /\ regions[Chain[1]].count = 0
    /\ regions[Chain[2]].capacity = KTL_ARENA_REGION_DEFAULT_CAPACITY
    /\ regions[Chain[2]].count > 0
    /\ StrictlyAfterEnd = { Chain[3] }

\* -------------------------------------------- scoped use in stack order
\* The client brackets its work with snapshot and rewind in stack order: it
\* holds up to MaxNested snapshots, rewinds only to a snapshot it holds, and
\* drops the snapshots captured after the one it rewinds to.  log is the
\* list of the blocks it was given and that no rewind or reset has discarded
\* since, in call order; log2[i] is the length of log when snaps[i] was
\* captured.
MaxNested == 2

InitNested == Fresh /\ pass = 10

AliveNested == pass = 10 /\ ~crashed /\ ~aborted

NestedAlloc(bytes) ==
    /\ AliveNested
    /\ Len(log) < MaxLog
    /\ CanAlloc(bytes)
    /\ LET r == arena_alloc(State, bytes) IN
         /\ SetState(r.st)
         /\ result' = r.result
         /\ log' = Append(log, [bytes |-> bytes, ptr |-> r.result])
    /\ called' = "alloc"
    /\ UNCHANGED << snaps, stale, crashed, aborted, pass, mark, log2, set,
                    client, g, component, once >>

\* arena_realloc with the block the client got last, if it still has it.
NestedRealloc(oldsz, newsz) ==
    /\ AliveNested
    /\ Len(log) < MaxLog
    /\ ReallocArgsValid(oldsz, newsz)
    /\ newsz > oldsz /\ oldsz > 0 =>
          /\ log # << >>
          /\ log[Len(log)].ptr = result
          /\ oldsz <= log[Len(log)].bytes
    /\ LET r == arena_realloc(State, result, oldsz, newsz) IN
         /\ SetState(r.st)
         /\ result' = r.result
         /\ log' = IF newsz > oldsz
                   THEN Append(log, [bytes |-> newsz, ptr |-> r.result])
                   ELSE log
    /\ called' = "realloc"
    /\ UNCHANGED << snaps, stale, crashed, aborted, pass, mark, log2, set,
                    client, g, component, once >>

NestedSnapshot ==
    /\ AliveNested
    /\ Len(snaps) < MaxNested
    /\ snaps' = Append(snaps, arena_snapshot(State))
    /\ stale' = Append(stale, FALSE)
    /\ log2' = Append(log2, Len(log))
    /\ called' = "snapshot"
    /\ result' = nullptr
    /\ UNCHANGED << arena, regions, live, released, crashed, aborted, pass, mark,
                    log, set, client, g, component, once >>

\* arena_rewind(&arena, snaps[i]); the blocks handed out since the capture
\* are discarded.
NestedRewind(i) ==
    /\ AliveNested
    /\ SetState(arena_rewind(State, snaps[i]))
    /\ snaps' = SubSeq(snaps, 1, i)
    /\ stale' = SubSeq(stale, 1, i)
    /\ log2' = SubSeq(log2, 1, i)
    /\ log' = SubSeq(log, 1, log2[i])
    /\ called' = "rewind"
    /\ result' = nullptr
    /\ UNCHANGED << crashed, aborted, pass, mark, set, client, g, component, once >>

\* arena_reset(&arena): every block is discarded, and with them the
\* snapshots of a region.
NestedReset ==
    /\ AliveNested
    /\ SetState(arena_reset(State))
    /\ LET keep == Cardinality({ j \in 1 .. Len(snaps) : snaps[j].region = NULL }) IN
         /\ snaps' = SubSeq(snaps, 1, keep)
         /\ stale' = SubSeq(stale, 1, keep)
         /\ log2' = SubSeq(log2, 1, keep)
    /\ log' = << >>
    /\ called' = "reset"
    /\ result' = nullptr
    /\ UNCHANGED << crashed, aborted, pass, mark, set, client, g, component, once >>

NestedTrim ==
    /\ AliveNested
    /\ arena.end # NULL
    /\ SetState(arena_trim(State))
    /\ called' = "trim"
    /\ result' = nullptr
    /\ UNCHANGED << snaps, stale, crashed, aborted, pass, mark, log, log2, set,
                    client, g, component, once >>

NextNested ==
    \/ \E bytes \in AllocBytes : NestedAlloc(bytes)
    \/ \E oldsz \in OldBytes, newsz \in AllocBytes : NestedRealloc(oldsz, newsz)
    \/ NestedSnapshot
    \/ \E i \in 1 .. Len(snaps) : NestedRewind(i)
    \/ NestedReset
    \/ NestedTrim

SpecNested == InitNested /\ [][NextNested]_vars

\* The words of region r that block b occupies.
WordsOfBlock(b) ==
    { << b.ptr.region, w >> : w \in b.ptr.offset .. b.ptr.offset + WordsOf(b.bytes) - 1 }

\* C34: no two live blocks overlap, across regions and across rewinds.  In
\* every state reachable by allocate, realloc, snapshot, rewind in stack
\* order, reset and trim, any two blocks of non-zero size that allocate
\* returned and no later rewind or reset has discarded are disjoint, and
\* each lies within the first count words of one region of the chain.
C34_NoOverlap ==
    /\ \A i \in 1 .. Len(log) : \A j \in (i + 1) .. Len(log) :
          WordsOfBlock(log[i]) \cap WordsOfBlock(log[j]) = {}
    /\ \A i \in 1 .. Len(log) :
          WordsOf(log[i].bytes) > 0 =>
              /\ log[i].ptr.region \in Range(Chain)
              /\ log[i].ptr.offset + WordsOf(log[i].bytes)
                    <= regions[log[i].ptr.region].count

\* Three blocks of non-zero size are live, one from before the outer
\* snapshot, one from between the two snapshots and one from after the inner
\* one, the last handed out after a rewind: the chain's third region was
\* used and is empty again.
C34_Witness ==
    /\ called = "alloc"
    /\ Len(snaps) = 2
    /\ log2 = << 1, 2 >>
    /\ Len(log) = 3
    /\ \A i \in 1 .. 3 : WordsOf(log[i].bytes) > 0
    /\ Len(Chain) = 3
    /\ regions[Chain[3]].count = 0

\* C35: trim is safe in every reachable arena state, including an empty
\* arena (never allocated from, or fully released, so begin = end = none):
\* there it is a no-op that leaves the arena empty.
C35_TrimSafe ==
    [][called' = "trim" =>
          /\ ~crashed'
          /\ arena.end = NULL => UNCHANGED ArenaState]_vars

\* ------------------------------------------------- requests of any size
\* The client, from the default-constructed arena, makes up to MaxLog calls
\* of arena_alloc or of ArenaAllocator<T>::allocate (assertions on) with
\* byte counts from anywhere in size_t, and logs for each call the bytes it
\* asked for and the words the call set aside for the block.
InitRounding == Fresh /\ pass = 11

\* The byte counts of AllocBytes, the largest one whose region still fits in
\* size_t, and the last sizeof(uintptr_t) - 1 values of size_t.
RoundingBytes ==
    AllocBytes \cup { SIZE_MODULUS - 32 }
        \cup { SIZE_MODULUS - k : k \in 1 .. sizeof_uintptr_t - 1 }

\* Element counts for the adapter: one, three, and the largest n for which
\* n * sizeof(T) is representable.
RoundingCounts == { 1, 3, (SIZE_MODULUS - 1) \div sizeof_T }

\* The words the call r set aside for the block it returned.
WordsSetAside(r) == r.st.regions[r.result.region].count - r.result.offset

RoundingAlloc(bytes) ==
    /\ pass = 11
    /\ Len(log) < MaxLog
    /\ CanAlloc(bytes)
    /\ LET r == arena_alloc(State, bytes) IN
         /\ SetState(r.st)
         /\ result' = r.result
         /\ log' = Append(log, [bytes |-> bytes, ptr |-> r.result,
                                words |-> WordsSetAside(r)])
    /\ called' = "alloc"
    /\ UNCHANGED << snaps, stale, crashed, aborted, pass, mark, log2, set,
                    client, g, component, once >>

RoundingAllocate(n) ==
    /\ pass = 11
    /\ Len(log) < MaxLog
    /\ CanAlloc((n * sizeof_T) % SIZE_MODULUS)
    /\ LET r == ArenaAllocator_allocate(State, n, FALSE) IN
         /\ SetState(r.st)
         /\ result' = r.result
         /\ log' = Append(log, [bytes |-> n * sizeof_T, ptr |-> r.result,
                                words |-> WordsSetAside(r)])
    /\ called' = "allocate"
    /\ UNCHANGED << snaps, stale, crashed, aborted, pass, mark, log2, set,
                    client, g, component, once >>

NextRounding ==
    \/ \E bytes \in RoundingBytes : RoundingAlloc(bytes)
    \/ \E n \in RoundingCounts : RoundingAllocate(n)

SpecRounding == InitRounding /\ [][NextRounding]_vars

\* C36: rounding never under-allocates.  For every byte count representable
\* in size_t the word count computed by allocate satisfies size * word size
\* >= bytes, so the returned block is at least as large as requested; the
\* sum bytes + word size - 1 does not wrap around.
C36_NoUnderAllocation ==
    \A i \in 1 .. Len(log) :
        /\ log[i].words * sizeof_uintptr_t >= log[i].bytes
        /\ log[i].bytes + sizeof_uintptr_t - 1 < SIZE_MODULUS

\* The arena and the heap after the step, as one value.
StateNext ==
    [arena |-> arena', regions |-> regions', live |-> live', released |-> released']

\* C37: nested rewinds collapse.  For snapshots S0 and S1 of the same arena,
\* S1 captured after S0 with no rewind or reset to a point before S0 in
\* between, rewind(S1) followed by rewind(S0) yields exactly the arena state
\* rewind(S0) alone yields; and rewind(S) applied twice in a row yields the
\* state applying it once yields.
C37_NestedRewinds ==
    [][called' = "rewind" =>
          \A i \in 1 .. Len(snaps) :
              NestedRewind(i) =>
                  \A j \in i .. Len(snaps) :
                      arena_rewind(arena_rewind(State, snaps[j]), snaps[i])
                          = StateNext]_vars

\* The client holds an outer snapshot of the first region and an inner one
\* of the second, both regions holding data; it used a third region after
\* the inner snapshot and has just rewound to the inner snapshot.
C37_Witness ==
    /\ called = "rewind"
    /\ Len(snaps) = 2
    /\ Len(Chain) = 3
    /\ snaps[1].region = Chain[1]
    /\ snaps[1].count > 0
    /\ snaps[2].region = Chain[2]
    /\ snaps[2].count > 0
    /\ arena.end = Chain[2]

\* C38: sparse_set index consistency.  In every state reachable by
\* push_back / emplace_back, erase of a live id, remove_if and clear,
\* indexes and metadata have the same length, id -> indexes[id] and
\* slot -> metadata[slot].rid are inverse permutations of each other
\* (indexes[metadata[d].rid] = d for every slot d), and the ids of the stored
\* elements are exactly the rids of the slots 0 .. size() - 1.
C38_IndexConsistency ==
    /\ Len(set.indexes) = Len(set.metadata)
    /\ \A d \in 0 .. Len(set.metadata) - 1 :
          /\ At(set.metadata, d).rid < Len(set.indexes)
          /\ At(set.indexes, At(set.metadata, d).rid) = d
    /\ \A id \in 0 .. Len(set.indexes) - 1 :
          /\ At(set.indexes, id) < Len(set.metadata)
          /\ At(set.metadata, At(set.indexes, id)).rid = id
    /\ LiveIds = { At(set.metadata, d).rid : d \in 0 .. set_size(set) - 1 }

\* An element other than the last has been erased and a later insert has
\* taken its id again: the ids of the two stored elements are no longer in
\* slot order, and a freed slot is left behind them.
C38_Witness ==
    /\ called = "push_back"
    /\ set_size(set) = 2
    /\ Len(set.metadata) = 3
    /\ At(set.metadata, 0).rid > At(set.metadata, 1).rid

\* ------------------------------------------------- sparse_set, narrow ID
\* A client of a sparse_set<T, ID> whose ID is an unsigned type of NarrowBits
\* bits: it constructs the set, inserts up to NarrowElems elements, erases
\* stored elements, creates one handle and clears the set.
NarrowBits == 2
NarrowElems == 2

InitNarrow == Fresh /\ pass = 12

\* sparse_set<T, ID> set;
NarrowConstruct ==
    /\ pass = 12
    /\ called = "none"
    /\ set' = sparse_set(NarrowBits)
    /\ called' = "sparse_set"
    /\ UNCHANGED << arena, regions, live, released, snaps, stale, result, crashed,
                    aborted, pass, mark, log, log2, client, g, component, once >>

Constructed == pass = 12 /\ called # "none"

NarrowPushBack(obj) ==
    /\ Constructed
    /\ set_size(set) < NarrowElems
    /\ LET r == push_back(set, obj) IN
         /\ set' = r.set
         /\ client' = [client EXCEPT
                          !.ret = r.id,
                          !.stored = [i \in LiveIds \cup {r.id} |->
                                         IF i = r.id THEN obj ELSE client.stored[i]],
                          !.issued = @ \cup {r.id}]
    /\ called' = "push_back"
    /\ UNCHANGED << arena, regions, live, released, snaps, stale, result, crashed,
                    aborted, pass, mark, log, log2, g, component, once >>

NarrowErase(id) ==
    /\ Constructed
    /\ id \in LiveIds
    /\ set' = erase(set, id)
    /\ client' = Forget({id})
    /\ called' = "erase"
    /\ UNCHANGED << arena, regions, live, released, snaps, stale, result, crashed,
                    aborted, pass, mark, log, log2, g, component, once >>

NarrowCreateHandle(id) ==
    /\ Constructed
    /\ id \in LiveIds
    /\ client.handles = << >>
    /\ LET h == create_handle(set, id) IN
         client' = [client EXCEPT
                       !.handles = << [id |-> h.id, validity_id |-> h.validity_id,
                                       erased |-> FALSE] >>]
    /\ called' = "create_handle"
    /\ UNCHANGED << arena, regions, live, released, snaps, stale, result, crashed,
                    aborted, pass, mark, log, log2, set, g, component, once >>

NarrowClear ==
    /\ Constructed
    /\ set' = clear(set)
    /\ client' = Forget(LiveIds)
    /\ called' = "clear"
    /\ UNCHANGED << arena, regions, live, released, snaps, stale, result, crashed,
                    aborted, pass, mark, log, log2, g, component, once >>

NextNarrow ==
    \/ NarrowConstruct
    \/ \E obj \in Values : NarrowPushBack(obj)
    \/ \E id \in 0 .. NarrowElems - 1 : NarrowErase(id)
    \/ \E id \in 0 .. NarrowElems - 1 : NarrowCreateHandle(id)
    \/ NarrowClear

SpecNarrow == InitNarrow /\ [][NextNarrow]_vars

\* C39: no handle resurrection.  Once a handle has become invalid because
\* its element was erased or the set was cleared, it never reports valid()
\* again after any further sequence of inserts, erases and clears, for every
\* permitted ID type, narrow integral types included.
C39_NoResurrection ==
    \A k \in 1 .. Len(client.handles) :
        client.handles[k].erased =>
            ~valid(set, client.handles[k].id, client.handles[k].validity_id)

\* ------------------------------------------------- threads at a call site
\* MaxThreads threads reach one call site, each up to MaxCalls times, in any
\* interleaving: a ktl_once_safe call site (pass 13) or a ktl_once call site
\* (pass 14).  The steps of a thread are the accesses to the static flag and
\* the call of f.
InitOnce == Fresh /\ pass \in {13, 14}

\* Another thread is inside the function.
OthersInside(t) == \E u \in OnceThreads \ {t} : once.pc[u] # "idle"

\* _once_safe: if (!done.test_and_set(std::memory_order_relaxed)) ...
OnceSafeTestAndSet(t) ==
    /\ pass = 13
    /\ once.pc[t] = "idle"
    /\ once.calls[t] < MaxCalls
    /\ LET r == test_and_set(once.done) IN
         once' = [once EXCEPT
                     !.done = r.done,
                     !.pc[t] = IF ~r.ret THEN "run" ELSE "idle",
                     !.calls[t] = @ + 1,
                     !.ran = IF ~r.ret THEN @ \cup {t} ELSE @,
                     !.first = IF ~once.done /\ r.done THEN t ELSE @,
                     !.overlapped = @ \/ OthersInside(t)]
    /\ called' = "ktl_once_safe"
    /\ UNCHANGED << arena, regions, live, released, snaps, stale, result, crashed,
                    aborted, pass, mark, log, log2, set, client, g, component >>

\* _once: if (!done) ...; the read of the plain bool.
OnceRead(t) ==
    /\ pass = 14
    /\ once.pc[t] = "idle"
    /\ once.calls[t] < MaxCalls
    /\ once' = [once EXCEPT
                   !.pc[t] = IF ~once.done THEN "store" ELSE "idle",
                   !.calls[t] = @ + 1,
                   !.ran = IF ~once.done THEN @ \cup {t} ELSE @,
                   !.overlapped = @ \/ OthersInside(t)]
    /\ called' = "ktl_once"
    /\ UNCHANGED << arena, regions, live, released, snaps, stale, result, crashed,
                    aborted, pass, mark, log, log2, set, client, g, component >>

\* _once: done = true;
OnceStore(t) ==
    /\ pass = 14
    /\ once.pc[t] = "store"
    /\ once' = [once EXCEPT
                   !.done = TRUE,
                   !.pc[t] = "run",
                   !.first = IF ~once.done THEN t ELSE @]
    /\ called' = "ktl_once"
    /\ UNCHANGED << arena, regions, live, released, snaps, stale, result, crashed,
                    aborted, pass, mark, log, log2, set, client, g, component >>

\* std::forward<Func>(f)(); of either function.
OnceRun(t) ==
    /\ pass \in {13, 14}
    /\ once.pc[t] = "run"
    /\ once' = [once EXCEPT !.executed = @ + 1, !.pc[t] = "idle"]
    /\ UNCHANGED << arena, regions, live, released, snaps, stale, called, result,
                    crashed, aborted, pass, mark, log, log2, set, client, g,
                    component >>

NextOnce ==
    \/ \E t \in OnceThreads : OnceSafeTestAndSet(t)
    \/ \E t \in OnceThreads : OnceRead(t)
    \/ \E t \in OnceThreads : OnceStore(t)
    \/ \E t \in OnceThreads : OnceRun(t)

SpecOnce == InitOnce /\ [][NextOnce]_vars

\* The runs of the expression so far, those about to happen included.
Runs == once.executed + Cardinality({ t \in OnceThreads : once.pc[t] # "idle" })

\* A call has passed the test of the flag.
Tested == \E t \in OnceThreads : once.calls[t] > 0

\* The expression runs at most once, once as soon as a call has tested the
\* flag, and every other call skips it.
ExactlyOnce ==
    /\ Runs <= 1
    /\ Tested => Runs = 1 /\ Cardinality(once.ran) = 1

\* C40: ktl_once_safe runs its expression exactly once per call site under
\* concurrency: for any number of threads reaching the call site in any
\* interleaving exactly one of them, the first to set the flag, executes the
\* expression and every other call, concurrent or later, skips it; the
\* non-atomic ktl_once gives the same result for calls that do not overlap
\* in time.
C40_ExactlyOnce ==
    /\ pass = 13 => ExactlyOnce /\ (Tested => once.ran = {once.first})
    /\ pass = 14 /\ ~once.overlapped => ExactlyOnce

\* Every thread has made all its calls at a ktl_once_safe call site, some of
\* them while another call was in progress, and the expression has run once.
C40_Witness ==
    /\ pass = 13
    /\ once.overlapped
    /\ \A t \in OnceThreads : once.calls[t] = MaxCalls /\ once.pc[t] = "idle"
    /\ once.executed = 1

\* The restriction of ktl_once to calls that do not overlap is needed: with
\* overlapping calls two threads can both read done as false, and this
\* statement does not hold of SpecOnce.
OverlapExactlyOnce == pass = 14 => Runs <= 1

====
